---- MODULE Spec2Model ----
(***************************************************************************)
(* Model of the xfutebol Flutter bridge (rust/src/api.rs): the registry    *)
(* GAMES of matches and the API functions Dart calls.  The match engine    *)
(* (crate xfutebol_engine: GameMatch, Board, Bot) is not part of the       *)
(* bridge source; its operations are modelled from the specification.      *)
(***************************************************************************)
EXTENDS Integers, Sequences, FiniteSets, TLC

\* Option<T>: None is Nil where T is a string (a team, a piece id), and the
\* empty sequence where T is a number or a record (Some(x) is << x >>).
Nil == "Nil"
None == << >>
Some(x) == << x >>
IsSome(o) == o # << >>
Unwrap(o) == o[1]

-----------------------------------------------------------------------------
(* Bounds of the model.                                                    *)

\* How many matches new_game may create in one behaviour of SpecRegistry.
MaxGames == 2
\* In Spec the callers stop submitting actions to a match whose turn number
\* has reached this cap.
MaxPlayTurns == 2
\* In SpecCeiling a GoldenGoal match has no turn limit: the callers stop
\* submitting actions to it when its turn number has reached this cap.
MaxGoldenTurns == 3
\* The callers stop submitting shots that would score once this many goals
\* have been scored in the match.
MaxGoals == 1
\* In SpecRegistry the turn cap of each match.
MaxRegistryTurns == 1
\* In SpecBot the turn cap of the match.
MaxBotTurns == 2
\* The number of caller threads in SpecThreads.
MaxThreads == 2

-----------------------------------------------------------------------------
(* Program constants.                                                      *)

BoardSize == 8
QuickMatchTurns == 10
StandardMatchTurns == 20
ActionsPerTurn == 2
InitialTurnNumber == 0
PiecesPerTeam == 7

-----------------------------------------------------------------------------
(* Engine types.                                                           *)

EngineTeamWhite == "E_White"
EngineTeamBlack == "E_Black"
EngineTeamNone == "E_None"

EngineActions == {"MOVE", "PASS", "SHOOT", "INTERCEPT", "KICK", "DEFEND", "PUSH"}

\* BoardTile::from_coords: None unless both coordinates are on the board.
from_coords(row, col) ==
    IF row >= 0 /\ row < BoardSize /\ col >= 0 /\ col < BoardSize
    THEN Some(row * BoardSize + col)
    ELSE None

\* BoardTile::to_index: the (row, col) pair of a tile.
to_index(tile) == << tile \div BoardSize, tile % BoardSize >>

\* The tile of on-board coordinates.
TileAt(row, col) == Unwrap(from_coords(row, col))

Opponent(team) == IF team = EngineTeamWhite THEN EngineTeamBlack ELSE EngineTeamWhite

\* The fixed roster: 1 GK, 2 DEF, 2 MID, 2 ATT per side, ids <Team><Role><seq>.
Roster ==
    [ WG01 |-> [team |-> EngineTeamWhite, role |-> "GK",  start |-> TileAt(0, 3)],
      WD01 |-> [team |-> EngineTeamWhite, role |-> "DEF", start |-> TileAt(1, 2)],
      WD02 |-> [team |-> EngineTeamWhite, role |-> "DEF", start |-> TileAt(1, 5)],
      WM01 |-> [team |-> EngineTeamWhite, role |-> "MID", start |-> TileAt(2, 2)],
      WM02 |-> [team |-> EngineTeamWhite, role |-> "MID", start |-> TileAt(2, 6)],
      WA01 |-> [team |-> EngineTeamWhite, role |-> "ATT", start |-> TileAt(3, 3)],
      WA02 |-> [team |-> EngineTeamWhite, role |-> "ATT", start |-> TileAt(3, 5)],
      BG01 |-> [team |-> EngineTeamBlack, role |-> "GK",  start |-> TileAt(7, 4)],
      BD01 |-> [team |-> EngineTeamBlack, role |-> "DEF", start |-> TileAt(6, 2)],
      BD02 |-> [team |-> EngineTeamBlack, role |-> "DEF", start |-> TileAt(6, 5)],
      BM01 |-> [team |-> EngineTeamBlack, role |-> "MID", start |-> TileAt(5, 1)],
      BM02 |-> [team |-> EngineTeamBlack, role |-> "MID", start |-> TileAt(5, 5)],
      BA01 |-> [team |-> EngineTeamBlack, role |-> "ATT", start |-> TileAt(4, 4)],
      BA02 |-> [team |-> EngineTeamBlack, role |-> "ATT", start |-> TileAt(4, 2)] ]

PieceIds == DOMAIN Roster

\* The attacker that takes the kickoff for a team.
KickoffAttacker(team) == IF team = EngineTeamWhite THEN "WA01" ELSE "BA01"

\* The row of the goal a team defends, and the tiles inside that goal.
GoalRow(team) == IF team = EngineTeamWhite THEN 0 ELSE BoardSize - 1
GoalTiles(team) == { TileAt(GoalRow(team), 3), TileAt(GoalRow(team), 4) }

-----------------------------------------------------------------------------
(* Board: piece placement and the ball.                                    *)

Sign(x) == IF x > 0 THEN 1 ELSE IF x < 0 THEN -1 ELSE 0
Abs(x) == IF x < 0 THEN -x ELSE x
Max(a, b) == IF a >= b THEN a ELSE b

Row(tile) == tile \div BoardSize
Col(tile) == tile % BoardSize

\* Chebyshev distance between two tiles.
Dist(a, b) == Max(Abs(Row(a) - Row(b)), Abs(Col(a) - Col(b)))

Directions == { d \in {-1, 0, 1} \X {-1, 0, 1} : d # << 0, 0 >> }

\* Whether k steps from `tile` in direction d stay on the board.
OnBoard(tile, d, k) ==
    /\ Row(tile) + k * d[1] \in 0 .. (BoardSize - 1)
    /\ Col(tile) + k * d[2] \in 0 .. (BoardSize - 1)

\* The tile k steps from `tile` in direction d (on the board).
Step(tile, d, k) == tile + k * (d[1] * BoardSize + d[2])

\* The tiles 1..k steps from `tile` in direction d (all on the board).
RayPath(tile, d, k) == [ i \in 1 .. k |-> Step(tile, d, i) ]

\* The board of a match at kickoff: the roster on its start tiles, the ball
\* with the kickoff attacker of the team that moves first.
NewBoard(first) ==
    [ pieces |-> [ id \in PieceIds |-> Roster[id].start ],
      ball   |-> Some([ possession |-> KickoffAttacker(first),
                        position   |-> Roster[KickoffAttacker(first)].start ]),
      turn   |-> first ]

\* Board::piece_at: the id of the piece on a tile, Nil when the tile is free.
PieceAt(board, tile) ==
    IF \E id \in PieceIds : board.pieces[id] = tile
    THEN CHOOSE id \in PieceIds : board.pieces[id] = tile
    ELSE Nil

Occupied(board, tile) == \E id \in PieceIds : board.pieces[id] = tile

\* The piece that holds the ball, Nil when the ball is loose.
BallHolder(board) == IF IsSome(board.ball) THEN Unwrap(board.ball).possession ELSE Nil

BallLoose(board) == IsSome(board.ball) /\ Unwrap(board.ball).possession = Nil

\* The tile the ball is on (with its holder, or loose).
BallTile(board) == Unwrap(board.ball).position

\* A tile a piece may step on: no piece and no loose ball on it.
FreeTile(board, tile) ==
    /\ ~Occupied(board, tile)
    /\ ~(BallLoose(board) /\ BallTile(board) = tile)

\* The mutation primitives of the board: a possessed ball follows its owner.
RelocatePiece(board, id, tile) ==
    [ board EXCEPT !.pieces[id] = tile,
                   !.ball = IF BallHolder(board) = id
                            THEN Some([ possession |-> id, position |-> tile ])
                            ELSE board.ball ]

SetBallHolder(board, id) ==
    [ board EXCEPT !.ball = Some([ possession |-> id, position |-> board.pieces[id] ]) ]

SetBallLoose(board, tile) ==
    [ board EXCEPT !.ball = Some([ possession |-> Nil, position |-> tile ]) ]

-----------------------------------------------------------------------------
(* LegalMoveGenerator: the legal paths of a piece for one action kind, a   *)
(* function of the board alone.  A path is a sequence of tiles.            *)

PassRange == 3
ShootRange == 3
KickRange == 2

\* How far a role moves in one action; the ball holder moves a single tile.
MoveRange(role) ==
    CASE role = "GK"  -> 1
      [] role = "DEF" -> 1
      [] role = "MID" -> 2
      [] role = "ATT" -> 2

\* The row direction in which a team attacks.
Forward(team) == IF team = EngineTeamWhite THEN 1 ELSE -1

\* The (direction, length) pairs within `range` of a tile that stay on the board.
Reach(tile, dirs, range) ==
    { x \in dirs \X (1 .. range) : OnBoard(tile, x[1], x[2]) }

\* Whether the piece on `tile` may move k tiles in direction d: within its
\* range, on the board, over free tiles only.
MoveLegal(board, id, tile, d, k) ==
    /\ k \in 1 .. (IF BallHolder(board) = id THEN 1 ELSE MoveRange(Roster[id].role))
    /\ OnBoard(tile, d, k)
    /\ \A i \in 1 .. k : FreeTile(board, Step(tile, d, i))

MovePaths(board, id, tile) ==
    { RayPath(tile, x[1], x[2]) :
        x \in { y \in Directions \X (1 .. MoveRange("ATT")) :
                  MoveLegal(board, id, tile, y[1], y[2]) } }

PassPaths(board, id, tile) ==
    IF BallHolder(board) # id THEN {}
    ELSE { RayPath(tile, x[1], x[2]) :
             x \in { y \in Reach(tile, Directions, PassRange) :
                       /\ \A i \in 1 .. (y[2] - 1) : ~Occupied(board, Step(tile, y[1], i))
                       /\ Occupied(board, Step(tile, y[1], y[2]))
                       /\ Roster[PieceAt(board, Step(tile, y[1], y[2]))].team
                            = Roster[id].team } }

\* A shot runs straight or diagonally towards the opposing goal line and is
\* clipped in front of the first piece in its way.
ShootPaths(board, id, tile) ==
    LET team  == Roster[id].team
        rows  == Abs(GoalRow(Opponent(team)) - Row(tile))
        dirs  == { << Forward(team), dc >> : dc \in {-1, 0, 1} }
        Clear(d) == { k \in 1 .. rows :
                        /\ OnBoard(tile, d, k)
                        /\ \A i \in 1 .. k : ~Occupied(board, Step(tile, d, i)) }
        Far(d) == CHOOSE k \in Clear(d) : \A j \in Clear(d) : j <= k
    IN  IF BallHolder(board) # id \/ rows < 1 \/ rows > ShootRange THEN {}
        ELSE { RayPath(tile, d, Far(d)) : d \in { e \in dirs : Clear(e) # {} } }

\* A piece next to the ball takes it: from an opposing holder, or a loose ball.
InterceptPaths(board, id, tile) ==
    LET holder == BallHolder(board)
    IN  IF /\ IsSome(board.ball)
           /\ holder # id
           /\ (holder = Nil \/ Roster[holder].team # Roster[id].team)
           /\ Dist(tile, BallTile(board)) = 1
        THEN { << BallTile(board) >> }
        ELSE {}

\* A piece next to a loose ball kicks it on, away from itself; the ball stops
\* on a free tile (loose) or at a teammate (who takes it).
KickPaths(board, id, tile) ==
    IF ~BallLoose(board) \/ Dist(tile, BallTile(board)) # 1 THEN {}
    ELSE LET ball == BallTile(board)
             d == << Sign(Row(ball) - Row(tile)), Sign(Col(ball) - Col(tile)) >>
         IN  { RayPath(ball, d, k) :
                 k \in { j \in 1 .. KickRange :
                           /\ OnBoard(ball, d, j)
                           /\ \A i \in 1 .. (j - 1) : ~Occupied(board, Step(ball, d, i))
                           /\ \/ ~Occupied(board, Step(ball, d, j))
                              \/ Roster[PieceAt(board, Step(ball, d, j))].team
                                   = Roster[id].team } }

\* A piece without the ball drops one tile back towards its own goal.
DefendPaths(board, id, tile) ==
    IF BallHolder(board) = id THEN {}
    ELSE { RayPath(tile, x[1], x[2]) :
             x \in { y \in Reach(tile, { << -Forward(Roster[id].team), dc >> : dc \in {-1, 0, 1} }, 1) :
                       FreeTile(board, Step(tile, y[1], 1)) } }

\* An adjacent opponent is displaced to a free tile next to it, away from
\* the pusher.  The path is << the opponent's tile, the destination >>.
PushPaths(board, id, tile) ==
    LET targets == { board.pieces[o] :
                       o \in { p \in PieceIds : /\ Roster[p].team # Roster[id].team
                                                /\ Dist(tile, board.pieces[p]) = 1 } }
        Away(t) == LET d == << Sign(Row(t) - Row(tile)), Sign(Col(t) - Col(tile)) >>
                   IN  { e \in Directions :
                           /\ Abs(e[1] - d[1]) + Abs(e[2] - d[2]) <= 1
                           /\ OnBoard(t, e, 1)
                           /\ Dist(tile, Step(t, e, 1)) = 2
                           /\ FreeTile(board, Step(t, e, 1)) }
    IN  UNION { { << t, Step(t, e, 1) >> : e \in Away(t) } : t \in targets }

\* Board::get_legal_moves: empty for a piece of the team that is not on turn
\* and for an action kind the piece cannot perform now.
Board_get_legal_moves(board, piece, action, tile) ==
    LET id == PieceAt(board, tile)
    IN  IF id = Nil \/ piece.team # board.turn THEN {}
        ELSE CASE action = "MOVE"      -> MovePaths(board, id, tile)
               [] action = "PASS"      -> PassPaths(board, id, tile)
               [] action = "SHOOT"     -> ShootPaths(board, id, tile)
               [] action = "INTERCEPT" -> InterceptPaths(board, id, tile)
               [] action = "KICK"      -> KickPaths(board, id, tile)
               [] action = "DEFEND"    -> DefendPaths(board, id, tile)
               [] action = "PUSH"      -> PushPaths(board, id, tile)

\* The last tile of a path.
Last(path) == path[Len(path)]

-----------------------------------------------------------------------------
(* GameMode and GameMatch: board, turn controller, score, terminal state.  *)

\* GameMode::quick_match / standard_match / golden_goal.
quick_match == [ max_turns |-> Some(QuickMatchTurns), golden |-> FALSE ]
standard_match == [ max_turns |-> Some(StandardMatchTurns), golden |-> FALSE ]
golden_goal == [ max_turns |-> None, golden |-> TRUE ]

\* GameMatch::standard: the roster placed, the match not yet started.
GameMatch_standard(mode) ==
    [ board             |-> [ pieces |-> [ id \in PieceIds |-> Roster[id].start ],
                              ball   |-> None,
                              turn   |-> EngineTeamNone ],
      mode              |-> mode,
      started           |-> FALSE,
      actions_remaining |-> 0,
      turn_number       |-> InitialTurnNumber,
      score             |-> << 0, 0 >>,
      over              |-> FALSE,
      winner            |-> Nil ]

\* GameMatch::start: the given team moves first and its attacker has the ball.
start(game, team) ==
    [ game EXCEPT !.board = NewBoard(team),
                  !.started = TRUE,
                  !.actions_remaining = ActionsPerTurn ]

current_turn(game) == game.board.turn
actions_remaining(game) == game.actions_remaining
score(game) == game.score
turn_number(game) == game.turn_number
is_over(game) == game.over
winner(game) == game.winner
ball_holder(game) == BallHolder(game.board)

\* GameMatch::all_pieces: (id, tile, piece) of every piece on the board.
all_pieces(game) ==
    { << id, game.board.pieces[id], [ team |-> Roster[id].team, role |-> Roster[id].role ] >> :
        id \in DOMAIN game.board.pieces }

\* GameMatch::piece_by_id: (tile, piece) of the piece with that id, if any.
piece_by_id(game, piece_id) ==
    IF piece_id \in DOMAIN game.board.pieces
    THEN Some(<< game.board.pieces[piece_id],
                 [ team |-> Roster[piece_id].team, role |-> Roster[piece_id].role ] >>)
    ELSE None

\* GameMatch::legal_moves: the destinations of the piece on a tile.
legal_moves(game, tile) ==
    LET id == PieceAt(game.board, tile)
    IN  IF id = Nil THEN {}
        ELSE { Last(path) :
                 path \in Board_get_legal_moves(game.board,
                                          [ team |-> Roster[id].team, role |-> Roster[id].role ],
                                          "MOVE", tile) }

\* Bot (spec.md 4.5): the pool of candidates of a team, one for every piece
\* of the team, every action kind and every legal path of that kind.
Bot_candidates(board, team) ==
    UNION { UNION { { [ piece_tile |-> board.pieces[id], action |-> action, path |-> path ] :
                        path \in Board_get_legal_moves(board,
                                     [ team |-> Roster[id].team, role |-> Roster[id].role ],
                                     action, board.pieces[id]) } :
                    action \in EngineActions } :
            id \in { i \in DOMAIN board.pieces : Roster[i].team = team } }

\* Bot::choose_actions(board, count): the top-scoring candidates, at most
\* count of them.  The scores of the two difficulties are not specified, so
\* any candidate may be the top one: the operator is the set of the lists
\* the bot may return (for count = 1).
Bot_choose_actions(board, team, difficulty, count) ==
    LET pool == Bot_candidates(board, team)
    IN  IF pool = {} \/ count = 0 THEN { << >> }
        ELSE { << c >> : c \in pool }

\* The team with the strictly higher score, Nil on a tie.
Leader(sc) ==
    IF sc[1] > sc[2] THEN EngineTeamWhite
    ELSE IF sc[2] > sc[1] THEN EngineTeamBlack
    ELSE Nil

\* ActionExecutor: the board after a validated action, and the team that
\* scored with it (Nil when no goal).
ApplyAction(board, id, action, path) ==
    LET team == Roster[id].team
        end  == Last(path)
    IN  CASE action = "MOVE"      -> [ board |-> RelocatePiece(board, id, end), goal |-> Nil ]
          [] action = "DEFEND"    -> [ board |-> RelocatePiece(board, id, end), goal |-> Nil ]
          [] action = "PASS"      -> [ board |-> SetBallHolder(board, PieceAt(board, end)),
                                       goal  |-> Nil ]
          [] action = "INTERCEPT" -> [ board |-> SetBallHolder(board, id), goal |-> Nil ]
          [] action = "KICK"      -> [ board |-> IF Occupied(board, end)
                                                 THEN SetBallHolder(board, PieceAt(board, end))
                                                 ELSE SetBallLoose(board, end),
                                       goal  |-> Nil ]
          [] action = "PUSH"      -> [ board |-> RelocatePiece(board, PieceAt(board, path[1]), path[2]),
                                       goal  |-> Nil ]
          [] action = "SHOOT"     -> IF end \in GoalTiles(Opponent(team))
                                     THEN [ board |-> SetBallHolder(board, KickoffAttacker(Opponent(team))),
                                            goal  |-> team ]
                                     ELSE [ board |-> SetBallLoose(board, end), goal |-> Nil ]

\* TurnController: one unit of budget is used; at 0 the turn flips, the
\* budget resets and the turn number grows; then the mode decides whether
\* the match is over.
EndAction(game, applied, action) ==
    LET scorer == applied.goal
        sc     == IF scorer = EngineTeamWhite THEN << game.score[1] + 1, game.score[2] >>
                  ELSE IF scorer = EngineTeamBlack THEN << game.score[1], game.score[2] + 1 >>
                  ELSE game.score
        left   == game.actions_remaining - 1
        ended  == left = 0
        num    == IF ended THEN game.turn_number + 1 ELSE game.turn_number
        golden == game.mode.golden /\ scorer # Nil
        limit  == /\ ended
                  /\ IsSome(game.mode.max_turns)
                  /\ num >= Unwrap(game.mode.max_turns)
        won    == IF golden THEN scorer ELSE IF limit THEN Leader(sc) ELSE Nil
        after  == [ game EXCEPT
                      !.board = [ applied.board EXCEPT
                                    !.turn = IF ended THEN Opponent(@) ELSE @ ],
                      !.actions_remaining = IF ended THEN ActionsPerTurn ELSE left,
                      !.turn_number = num,
                      !.score = sc,
                      !.over = golden \/ limit,
                      !.winner = won ]
    IN  [ ok      |-> TRUE,
          game    |-> after,
          err     |-> "",
          outcome |-> [ action            |-> action,
                        goal_scored       |-> scorer,
                        turn_ended        |-> ended,
                        actions_remaining |-> after.actions_remaining,
                        game_over         |-> after.over,
                        winner            |-> after.winner ] ]

\* A rejected action: the match is returned as it was.
Rejected(game, e) ==
    [ ok |-> FALSE, game |-> game, err |-> e,
      outcome |-> [ action |-> "", goal_scored |-> Nil, turn_ended |-> FALSE,
                    actions_remaining |-> 0, game_over |-> FALSE, winner |-> Nil ] ]

\* Validation, then execution: terminal match, no piece on the tile, wrong
\* team's turn and a path outside the legal set are all IllegalAction.
perform(game, action, from, path) ==
    LET id == PieceAt(game.board, from)
    IN  IF game.over \/ ~game.started THEN Rejected(game, "IllegalAction")
        ELSE IF id = Nil THEN Rejected(game, "IllegalAction")
        ELSE IF Roster[id].team # current_turn(game) THEN Rejected(game, "IllegalAction")
        ELSE IF path \notin Board_get_legal_moves(game.board,
                                            [ team |-> Roster[id].team, role |-> Roster[id].role ],
                                            action, from)
             THEN Rejected(game, "IllegalAction")
        ELSE EndAction(game, ApplyAction(game.board, id, action, path), action)

\* GameMatch::perform_move takes the destination: the same validation, with
\* the one ray from the piece to the destination as the path.
perform_move(game, from, to) ==
    LET id == PieceAt(game.board, from)
        d  == << Sign(Row(to) - Row(from)), Sign(Col(to) - Col(from)) >>
        k  == Dist(from, to)
    IN  IF game.over \/ ~game.started THEN Rejected(game, "IllegalAction")
        ELSE IF id = Nil THEN Rejected(game, "IllegalAction")
        ELSE IF Roster[id].team # current_turn(game) THEN Rejected(game, "IllegalAction")
        ELSE IF /\ MoveLegal(game.board, id, from, d, k)
                /\ Step(from, d, k) = to
             THEN EndAction(game, ApplyAction(game.board, id, "MOVE", RayPath(from, d, k)), "MOVE")
        ELSE Rejected(game, "IllegalAction")

perform_pass(game, from, path) == perform(game, "PASS", from, path)
perform_shoot(game, from, path) == perform(game, "SHOOT", from, path)
perform_intercept(game, from, path) == perform(game, "INTERCEPT", from, path)
perform_kick(game, from, path) == perform(game, "KICK", from, path)
perform_defend(game, from, path) == perform(game, "DEFEND", from, path)
perform_push(game, from, target, dest) == perform(game, "PUSH", from, << target, dest >>)

-----------------------------------------------------------------------------
(* Bridge types and conversions (api.rs).                                  *)

GameModeTypes == { "QuickMatch", "StandardMatch", "GoldenGoal" }

\* impl From<EngineTeam> for Team
TeamFrom(t) ==
    CASE t = EngineTeamWhite -> "White"
      [] t = EngineTeamBlack -> "Black"
      [] t = EngineTeamNone  -> "White"

\* Option<EngineTeam>::map(Into::into)
OptionTeamFrom(o) == IF o = Nil THEN Nil ELSE TeamFrom(o)

\* impl From<EnginePieceRole> for PieceRole
PieceRoleFrom(r) ==
    CASE r = "GK"  -> "Goalkeeper"
      [] r = "DEF" -> "Defender"
      [] r = "MID" -> "Midfielder"
      [] r = "ATT" -> "Attacker"

\* impl From<BoardTile> for Position (row and col are u8)
\* The variant of the conversion that copies the row index into both fields.
PositionFrom_row_twice(tile) ==
    [ row |-> to_index(tile)[1] % 256, col |-> to_index(tile)[1] % 256 ]

PositionFrom(tile) ==
    [ row |-> to_index(tile)[1] % 256, col |-> to_index(tile)[2] % 256 ]

\* Variant: row and col passed to from_coords in the wrong order.
BoardTileFrom_transposed(pos) == from_coords(pos.col, pos.row)

\* impl From<Position> for BoardTile, before the expect: None off the board.
BoardTileFrom(pos) == from_coords(pos.row, pos.col)

\* Whether converting every position of a path succeeds (no expect panics).
PathConverts(path) == \A i \in 1 .. Len(path) : IsSome(BoardTileFrom(path[i]))

PathTiles(path) == [ i \in 1 .. Len(path) |-> Unwrap(BoardTileFrom(path[i])) ]

PositionPathFrom(tiles) == [ positions |-> [ i \in 1 .. Len(tiles) |-> PositionFrom(tiles[i]) ] ]

\* ActionResult::error
ActionResult_error(msg) ==
    [ success           |-> FALSE,
      message           |-> msg,
      game_over         |-> FALSE,
      winner            |-> Nil,
      actions_remaining |-> 0,
      goal_scored       |-> Nil,
      turn_ended        |-> FALSE ]

\* Variant: the winner of the outcome is not copied into the result.
ActionResult_from_outcome_no_winner(outcome) ==
    [ success           |-> TRUE,
      message           |-> "Action completed: " \o outcome.action,
      game_over         |-> outcome.game_over,
      winner            |-> Nil,
      actions_remaining |-> outcome.actions_remaining,
      goal_scored       |-> OptionTeamFrom(outcome.goal_scored),
      turn_ended        |-> outcome.turn_ended ]

\* Variant: an absent scorer goes through the EngineTeam::None arm of
\* From<EngineTeam> for Team (goal_scored.unwrap_or(EngineTeam::None).into()).
ActionResult_from_outcome_through_fallback(outcome) ==
    [ success           |-> TRUE,
      message           |-> "Action completed: " \o outcome.action,
      game_over         |-> outcome.game_over,
      winner            |-> OptionTeamFrom(outcome.winner),
      actions_remaining |-> outcome.actions_remaining,
      goal_scored       |-> IF outcome.goal_scored = Nil THEN TeamFrom(EngineTeamNone)
                            ELSE TeamFrom(outcome.goal_scored),
      turn_ended        |-> outcome.turn_ended ]

\* ActionResult::from_outcome
ActionResult_from_outcome(outcome) ==
    [ success           |-> TRUE,
      message           |-> "Action completed: " \o outcome.action,
      game_over         |-> outcome.game_over,
      winner            |-> OptionTeamFrom(outcome.winner),
      actions_remaining |-> outcome.actions_remaining,
      goal_scored       |-> OptionTeamFrom(outcome.goal_scored),
      turn_ended        |-> outcome.turn_ended ]

-----------------------------------------------------------------------------
(* API functions.  Each takes the registry (the map behind GAMES) and its  *)
(* arguments and yields the registry after the call, the value returned     *)
(* and whether the call panicked (while holding the lock).                  *)

Returned(gs, value) == [ games |-> gs, ret |-> value, panicked |-> FALSE ]
Panicked(gs) == [ games |-> gs, ret |-> ActionResult_error(""), panicked |-> TRUE ]

\* Variant: the match is taken out of the registry for the call and put
\* back only on Ok.
Performed_taken(gs, game_id, r) ==
    IF r.ok
    THEN Returned([ gs EXCEPT ![game_id] = r.game ], ActionResult_from_outcome(r.outcome))
    ELSE Returned([ id \in DOMAIN gs \ { game_id } |-> gs[id] ], ActionResult_error(r.err))

\* Variant: perform_* runs on a clone of the match, the registry keeps the
\* match of before.
Performed_on_clone(gs, game_id, r) ==
    Returned(gs, IF r.ok THEN ActionResult_from_outcome(r.outcome)
                 ELSE ActionResult_error(r.err))

\* The match of a call's Result: perform_* works on the match in place.
\* The variant that stores the result of the action under every id of the
\* registry.
Performed_on_every_match(gs, game_id, r) ==
    Returned([ id \in DOMAIN gs |-> r.game ],
             IF r.ok THEN ActionResult_from_outcome(r.outcome)
             ELSE ActionResult_error(r.err))

Performed(gs, game_id, r) ==
    Returned([ gs EXCEPT ![game_id] = r.game ],
             IF r.ok THEN ActionResult_from_outcome(r.outcome)
             ELSE ActionResult_error(r.err))

\* Variant: the arms of the mode match are mixed up (Quick <-> Standard).
new_game_modes_swapped(gs, game_id, mode) ==
    LET engine_mode == CASE mode = "QuickMatch"    -> standard_match
                         [] mode = "StandardMatch" -> quick_match
                         [] mode = "GoldenGoal"    -> golden_goal
        game == start(GameMatch_standard(engine_mode), EngineTeamWhite)
    IN  Returned([ id \in DOMAIN gs \cup { game_id } |->
                     IF id = game_id THEN game ELSE gs[id] ],
                 game_id)

\* Variant: the match is started with EngineTeam::Black.
new_game_black_first(gs, game_id, mode) ==
    LET engine_mode == CASE mode = "QuickMatch"    -> quick_match
                         [] mode = "StandardMatch" -> standard_match
                         [] mode = "GoldenGoal"    -> golden_goal
        game == start(GameMatch_standard(engine_mode), EngineTeamBlack)
    IN  Returned([ id \in DOMAIN gs \cup { game_id } |->
                     IF id = game_id THEN game ELSE gs[id] ],
                 game_id)

\* Variant: the match is registered without game.start(EngineTeam::White).
new_game_unstarted(gs, game_id, mode) ==
    LET engine_mode == CASE mode = "QuickMatch"    -> quick_match
                         [] mode = "StandardMatch" -> standard_match
                         [] mode = "GoldenGoal"    -> golden_goal
        game == GameMatch_standard(engine_mode)
    IN  Returned([ id \in DOMAIN gs \cup { game_id } |->
                     IF id = game_id THEN game ELSE gs[id] ],
                 game_id)

new_game(gs, game_id, mode) ==
    LET engine_mode == CASE mode = "QuickMatch"    -> quick_match
                         [] mode = "StandardMatch" -> standard_match
                         [] mode = "GoldenGoal"    -> golden_goal
        game == start(GameMatch_standard(engine_mode), EngineTeamWhite)
    IN  Returned([ id \in DOMAIN gs \cup { game_id } |->
                     IF id = game_id THEN game ELSE gs[id] ],
                 game_id)

\* The variant of get_board that reports the tile of the ball also when a
\* piece holds it (no filter on possession).
get_board_ball_unfiltered(gs, game_id) ==
    IF game_id \notin DOMAIN gs THEN None
    ELSE LET game == gs[game_id]
             ball_holder_id == ball_holder(game)
             pieces == { [ id       |-> e[1],
                           team     |-> TeamFrom(e[3].team),
                           role     |-> PieceRoleFrom(e[3].role),
                           position |-> PositionFrom(e[2]),
                           has_ball |-> (ball_holder_id = e[1]) ] : e \in all_pieces(game) }
             ball_position == IF IsSome(game.board.ball)
                              THEN Some(PositionFrom(Unwrap(game.board.ball).position))
                              ELSE None
         IN  Some([ pieces            |-> pieces,
                    ball_position     |-> ball_position,
                    current_turn      |-> TeamFrom(current_turn(game)),
                    actions_remaining |-> actions_remaining(game),
                    white_score       |-> score(game)[1],
                    black_score       |-> score(game)[2],
                    turn_number       |-> turn_number(game) ])

\* The variant of get_board that reads the two components of score() in the
\* other order.
get_board_scores_swapped(gs, game_id) ==
    IF game_id \notin DOMAIN gs THEN None
    ELSE LET game == gs[game_id]
             ball_holder_id == ball_holder(game)
             pieces == { [ id       |-> e[1],
                           team     |-> TeamFrom(e[3].team),
                           role     |-> PieceRoleFrom(e[3].role),
                           position |-> PositionFrom(e[2]),
                           has_ball |-> (ball_holder_id = e[1]) ] : e \in all_pieces(game) }
             ball_position == IF IsSome(game.board.ball)
                                 /\ Unwrap(game.board.ball).possession = Nil
                              THEN Some(PositionFrom(Unwrap(game.board.ball).position))
                              ELSE None
         IN  Some([ pieces            |-> pieces,
                    ball_position     |-> ball_position,
                    current_turn      |-> TeamFrom(current_turn(game)),
                    actions_remaining |-> actions_remaining(game),
                    white_score       |-> score(game)[2],
                    black_score       |-> score(game)[1],
                    turn_number       |-> turn_number(game) ])

get_board(gs, game_id) ==
    IF game_id \notin DOMAIN gs THEN None
    ELSE LET game == gs[game_id]
             ball_holder_id == ball_holder(game)
             pieces == { [ id       |-> e[1],
                           team     |-> TeamFrom(e[3].team),
                           role     |-> PieceRoleFrom(e[3].role),
                           position |-> PositionFrom(e[2]),
                           has_ball |-> (ball_holder_id = e[1]) ] : e \in all_pieces(game) }
             ball_position == IF IsSome(game.board.ball)
                                 /\ Unwrap(game.board.ball).possession = Nil
                              THEN Some(PositionFrom(Unwrap(game.board.ball).position))
                              ELSE None
         IN  Some([ pieces            |-> pieces,
                    ball_position     |-> ball_position,
                    current_turn      |-> TeamFrom(current_turn(game)),
                    actions_remaining |-> actions_remaining(game),
                    white_score       |-> score(game)[1],
                    black_score       |-> score(game)[2],
                    turn_number       |-> turn_number(game) ])

\* The variant of get_legal_moves that falls back to the tile of the ball
\* when the piece id is unknown.
get_legal_moves_from_ball(gs, game_id, piece_id) ==
    IF game_id \notin DOMAIN gs THEN {}
    ELSE LET game == gs[game_id]
             p == piece_by_id(game, piece_id)
         IN  { PositionFrom(t) :
                 t \in legal_moves(game, IF IsSome(p) THEN Unwrap(p)[1]
                                         ELSE BallTile(game.board)) }

get_legal_moves(gs, game_id, piece_id) ==
    IF game_id \notin DOMAIN gs THEN {}
    ELSE LET game == gs[game_id]
             p == piece_by_id(game, piece_id)
         IN  IF IsSome(p)
             THEN { PositionFrom(t) : t \in legal_moves(game, Unwrap(p)[1]) }
             ELSE {}

get_legal_action_paths(gs, game_id, piece_id, action) ==
    IF game_id \notin DOMAIN gs THEN {}
    ELSE LET game == gs[game_id]
             p == piece_by_id(game, piece_id)
         IN  IF ~IsSome(p) THEN {}
             ELSE { PositionPathFrom(path) :
                      path \in Board_get_legal_moves(game.board, Unwrap(p)[2], action, Unwrap(p)[1]) }

\* The variant of get_legal_passes that asks the engine for EngineAction::MOVE.
get_legal_passes_as_moves(gs, game_id, piece_id) ==
    get_legal_action_paths(gs, game_id, piece_id, "MOVE")

get_legal_passes(gs, game_id, piece_id) ==
    IF game_id \notin DOMAIN gs THEN {}
    ELSE LET game == gs[game_id]
             p == piece_by_id(game, piece_id)
         IN  IF ~IsSome(p) THEN {}
             ELSE { PositionPathFrom(path) :
                      path \in Board_get_legal_moves(game.board, Unwrap(p)[2], "PASS", Unwrap(p)[1]) }

get_legal_shoots(gs, game_id, piece_id) ==
    IF game_id \notin DOMAIN gs THEN {}
    ELSE LET game == gs[game_id]
             p == piece_by_id(game, piece_id)
         IN  IF ~IsSome(p) THEN {}
             ELSE { PositionPathFrom(path) :
                      path \in Board_get_legal_moves(game.board, Unwrap(p)[2], "SHOOT", Unwrap(p)[1]) }

get_legal_intercepts(gs, game_id, piece_id) ==
    get_legal_action_paths(gs, game_id, piece_id, "INTERCEPT")
get_legal_kicks(gs, game_id, piece_id) ==
    get_legal_action_paths(gs, game_id, piece_id, "KICK")
get_legal_defends(gs, game_id, piece_id) ==
    get_legal_action_paths(gs, game_id, piece_id, "DEFEND")
get_legal_pushes(gs, game_id, piece_id) ==
    get_legal_action_paths(gs, game_id, piece_id, "PUSH")

\* The variant of execute_move that converts `to` before it looks the piece
\* up.
execute_move_converting_first(gs, game_id, piece_id, to) ==
    IF game_id \notin DOMAIN gs THEN Returned(gs, ActionResult_error("Game not found"))
    ELSE LET game == gs[game_id]
             p == piece_by_id(game, piece_id)
         IN  IF ~IsSome(BoardTileFrom(to)) THEN Panicked(gs)
             ELSE IF ~IsSome(p) THEN Returned(gs, ActionResult_error("Piece not found"))
             ELSE Performed(gs, game_id,
                            perform_move(game, Unwrap(p)[1], Unwrap(BoardTileFrom(to))))

execute_move(gs, game_id, piece_id, to) ==
    IF game_id \notin DOMAIN gs THEN Returned(gs, ActionResult_error("Game not found"))
    ELSE LET game == gs[game_id]
             p == piece_by_id(game, piece_id)
         IN  IF ~IsSome(p) THEN Returned(gs, ActionResult_error("Piece not found"))
             ELSE IF ~IsSome(BoardTileFrom(to)) THEN Panicked(gs)
             ELSE Performed(gs, game_id,
                            perform_move(game, Unwrap(p)[1], Unwrap(BoardTileFrom(to))))

execute_pass(gs, game_id, piece_id, path) ==
    IF game_id \notin DOMAIN gs THEN Returned(gs, ActionResult_error("Game not found"))
    ELSE LET game == gs[game_id]
             p == piece_by_id(game, piece_id)
         IN  IF ~IsSome(p) THEN Returned(gs, ActionResult_error("Piece not found"))
             ELSE IF ~PathConverts(path) THEN Panicked(gs)
             ELSE Performed(gs, game_id, perform_pass(game, Unwrap(p)[1], PathTiles(path)))

execute_shoot(gs, game_id, piece_id, path) ==
    IF game_id \notin DOMAIN gs THEN Returned(gs, ActionResult_error("Game not found"))
    ELSE LET game == gs[game_id]
             p == piece_by_id(game, piece_id)
         IN  IF ~IsSome(p) THEN Returned(gs, ActionResult_error("Piece not found"))
             ELSE IF ~PathConverts(path) THEN Panicked(gs)
             ELSE Performed(gs, game_id, perform_shoot(game, Unwrap(p)[1], PathTiles(path)))

\* execute_path_action with its closure action_fn, given as the engine action.
execute_path_action(gs, game_id, piece_id, path, action) ==
    IF game_id \notin DOMAIN gs THEN Returned(gs, ActionResult_error("Game not found"))
    ELSE LET game == gs[game_id]
             p == piece_by_id(game, piece_id)
         IN  IF ~IsSome(p) THEN Returned(gs, ActionResult_error("Piece not found"))
             ELSE IF ~PathConverts(path) THEN Panicked(gs)
             ELSE Performed(gs, game_id,
                            CASE action = "INTERCEPT" ->
                                   perform_intercept(game, Unwrap(p)[1], PathTiles(path))
                              [] action = "KICK" ->
                                   perform_kick(game, Unwrap(p)[1], PathTiles(path))
                              [] action = "DEFEND" ->
                                   perform_defend(game, Unwrap(p)[1], PathTiles(path)))

execute_intercept(gs, game_id, piece_id, path) ==
    execute_path_action(gs, game_id, piece_id, path, "INTERCEPT")
execute_kick(gs, game_id, piece_id, path) ==
    execute_path_action(gs, game_id, piece_id, path, "KICK")
execute_defend(gs, game_id, piece_id, path) ==
    execute_path_action(gs, game_id, piece_id, path, "DEFEND")

execute_push(gs, game_id, piece_id, target, destination) ==
    IF game_id \notin DOMAIN gs THEN Returned(gs, ActionResult_error("Game not found"))
    ELSE LET game == gs[game_id]
             p == piece_by_id(game, piece_id)
         IN  IF ~IsSome(p) THEN Returned(gs, ActionResult_error("Piece not found"))
             ELSE IF ~IsSome(BoardTileFrom(target)) \/ ~IsSome(BoardTileFrom(destination))
                  THEN Panicked(gs)
             ELSE Performed(gs, game_id,
                            perform_push(game, Unwrap(p)[1],
                                         Unwrap(BoardTileFrom(target)),
                                         Unwrap(BoardTileFrom(destination))))

\* The variant of is_game_over that reports a missing match as running.
is_game_over_missing_running(gs, game_id) ==
    IF game_id \in DOMAIN gs THEN is_over(gs[game_id]) ELSE FALSE

is_game_over(gs, game_id) ==
    IF game_id \in DOMAIN gs THEN is_over(gs[game_id]) ELSE TRUE

\* Variant: an absent winner goes through the EngineTeam::None arm of
\* From<EngineTeam> for Team (winner().unwrap_or(EngineTeam::None).into()).
get_winner_through_fallback(gs, game_id) ==
    IF game_id \notin DOMAIN gs THEN Nil
    ELSE IF winner(gs[game_id]) = Nil THEN TeamFrom(EngineTeamNone)
    ELSE TeamFrom(winner(gs[game_id]))

get_winner(gs, game_id) ==
    IF game_id \notin DOMAIN gs THEN Nil
    ELSE OptionTeamFrom(winner(gs[game_id]))

game_exists(gs, game_id) == game_id \in DOMAIN gs

\* The variant of delete_game that empties the whole registry.
delete_game_clearing(gs, game_id) ==
    Returned(<< >>, game_id \in DOMAIN gs)

delete_game(gs, game_id) ==
    Returned([ id \in DOMAIN gs \ { game_id } |-> gs[id] ], game_id \in DOMAIN gs)

\* enum Difficulty, and impl From<Difficulty> for EngineDifficulty.
Difficulties == { "Easy", "Medium" }

EngineDifficultyFrom(d) ==
    CASE d = "Easy"   -> "EngineEasy"
      [] d = "Medium" -> "EngineMedium"

\* impl From<EngineAction> for ActionType
ActionTypeFrom(a) ==
    CASE a = "MOVE"      -> "Move"
      [] a = "PASS"      -> "Pass"
      [] a = "SHOOT"     -> "Shoot"
      [] a = "INTERCEPT" -> "Intercept"
      [] a = "KICK"      -> "Kick"
      [] a = "DEFEND"    -> "Defend"
      [] a = "PUSH"      -> "Push"

\* The id of the piece standing on the tile of a bot move:
\* all_pieces().find(tile == piece_tile).unwrap_or_default().
\* (all_pieces lists (id, tile, piece) with the tile the board has for id.)
BotPieceId(game, bot_move) ==
    LET found == { id \in DOMAIN game.board.pieces :
                     game.board.pieces[id] = bot_move.piece_tile }
    IN  IF found = {} THEN "" ELSE CHOOSE id \in found : TRUE

\* The bot functions only read the registry.  Each is the set of the values
\* the call may return, one for each list the bot may choose.

\* get_bot_move: (piece id, destination) of the first chosen action.
get_bot_move(gs, game_id, difficulty) ==
    IF game_id \notin DOMAIN gs THEN { None }
    ELSE LET game == gs[game_id]
             lists == Bot_choose_actions(game.board, current_turn(game),
                                         EngineDifficultyFrom(difficulty), 1)
         IN  { IF Len(actions) = 0 THEN None
               ELSE LET bot_move == actions[1]
                    IN  Some(<< BotPieceId(game, bot_move),
                                PositionFrom(IF Len(bot_move.path) = 0 THEN bot_move.piece_tile
                                             ELSE Last(bot_move.path)) >>) :
               actions \in lists }

\* The variant of get_bot_action whose bot plays the team off turn.
get_bot_action_for_opponent(gs, game_id, difficulty) ==
    IF game_id \notin DOMAIN gs THEN { None }
    ELSE LET game == gs[game_id]
             lists == Bot_choose_actions(game.board, Opponent(current_turn(game)),
                                         EngineDifficultyFrom(difficulty), 1)
         IN  { IF Len(actions) = 0 THEN None
               ELSE LET bot_move == actions[1]
                    IN  Some([ piece_id |-> BotPieceId(game, bot_move),
                               action_type |-> ActionTypeFrom(bot_move.action),
                               path |-> [ i \in 1 .. Len(bot_move.path) |->
                                            PositionFrom(bot_move.path[i]) ] ]) :
               actions \in lists }

\* The variant of get_bot_action that looks the piece up on the last tile of
\* the path instead of the tile the action starts from.
get_bot_action_piece_at_destination(gs, game_id, difficulty) ==
    IF game_id \notin DOMAIN gs THEN { None }
    ELSE LET game == gs[game_id]
             lists == Bot_choose_actions(game.board, current_turn(game),
                                         EngineDifficultyFrom(difficulty), 1)
         IN  { IF Len(actions) = 0 THEN None
               ELSE LET bot_move == actions[1]
                    IN  Some([ piece_id |-> BotPieceId(game, [ bot_move EXCEPT
                                                !.piece_tile = Last(bot_move.path) ]),
                               action_type |-> ActionTypeFrom(bot_move.action),
                               path |-> [ i \in 1 .. Len(bot_move.path) |->
                                            PositionFrom(bot_move.path[i]) ] ]) :
               actions \in lists }

\* get_bot_action: the BotAction of the first chosen action.
get_bot_action(gs, game_id, difficulty) ==
    IF game_id \notin DOMAIN gs THEN { None }
    ELSE LET game == gs[game_id]
             lists == Bot_choose_actions(game.board, current_turn(game),
                                         EngineDifficultyFrom(difficulty), 1)
         IN  { IF Len(actions) = 0 THEN None
               ELSE LET bot_move == actions[1]
                    IN  Some([ piece_id |-> BotPieceId(game, bot_move),
                               action_type |-> ActionTypeFrom(bot_move.action),
                               path |-> [ i \in 1 .. Len(bot_move.path) |->
                                            PositionFrom(bot_move.path[i]) ] ]) :
               actions \in lists }

-----------------------------------------------------------------------------
(* State.                                                                  *)

VARIABLES
    games,      \* GAMES: the map from game id to GameMatch
    poisoned,   \* the Mutex of GAMES is poisoned (a call panicked holding it)
    issued,     \* how many ids Uuid::new_v4 has produced (ids are never reused)
    last,       \* the last API call: its name, game id and what it returned
    modes,      \* the GameModeType each id was created with
    scope,      \* what the callers of this behaviour exercise
    lock,       \* the thread that holds the MutexGuard of GAMES, 0 when free
    threads     \* the call each caller thread is in, and where in it

vars == << games, poisoned, issued, last, modes, scope, lock, threads >>

\* The record `last` of a call.  op is "new_game", "delete_game" or
\* "execute" (the action kind of a successful execute_* is in its message).
Call(op, game_id, out) ==
    [ op |-> op, game_id |-> game_id, panicked |-> out.panicked, result |-> out.ret ]

\* GAMES.lock().unwrap(): on a poisoned Mutex the call panics before it
\* touches the registry; otherwise the call runs and a panic poisons it.
\* (One caller at a time: the call takes the lock and drops it in one step.)
Invoke(op, game_id, out) ==
    /\ IF poisoned
       THEN /\ games' = games
            /\ poisoned' = TRUE
            /\ last' = Call(op, game_id, Panicked(games))
       ELSE /\ games' = out.games
            /\ poisoned' = out.panicked
            /\ last' = Call(op, game_id, out)
    /\ UNCHANGED << lock, threads >>

\* The caller threads of the concurrent behaviours.
Threads == 1 .. MaxThreads

-----------------------------------------------------------------------------
(* The callers' inputs.  What the callers submit depends on what the       *)
(* behaviour exercises (scope): "match" is one match with every input,      *)
(* "ceiling" one match played to its end with moves and shots, "registry"   *)
(* several matches side by side, "bot" one match played around the kickoff  *)
(* spot with every kind of action, "threads" several matches called from    *)
(* several threads at once.                                                 *)

Pos(r, c) == [ row |-> r, col |-> c ]

\* A position off the board and one no caller piece ever reaches.
OffBoard == Pos(BoardSize, 3)
FarCorner == Pos(0, 0)

\* Ids handed out so far; 0 is never handed out.
IssuedIds == 1 .. issued

\* The ids the callers pass: ids handed out, and an unknown one.
CallerGameIds == IF scope = "ceiling" THEN IssuedIds ELSE 0 .. issued

\* The pieces the callers act with: the two kickoff attackers.
CallerPieceIds == { "WA01", "BA01" }
UnknownPieceId == "ZZ99"

\* The action kinds for which the callers submit legal paths.
CallerKinds ==
    IF scope \in { "match", "bot" } THEN EngineActions ELSE { "MOVE", "SHOOT" }

\* The positions the callers pass as a destination.
CallerPositions ==
    IF scope = "match"
    THEN { Pos(3, 3), Pos(4, 3), Pos(3, 4), Pos(4, 4), Pos(5, 4) }
    ELSE IF scope \in { "ceiling", "bot" }
    THEN { Pos(3, 3), Pos(4, 3), Pos(3, 4) }
    ELSE { Pos(3, 3), Pos(4, 3), Pos(4, 4), Pos(5, 4) }

\* The part of the pitch the callers' paths stay in.
CallerRegion ==
    { Pos(r, c) : r \in 0 .. 7, c \in 3 .. 4 } \cup { Pos(3, 5) }

\* The paths that are legal nowhere: a far tile, and (in the scopes "match"
\* and "registry") a path that leaves the board.
BadPaths(piece_id) ==
    IF scope \in { "match", "registry" } /\ piece_id = "WA01"
    THEN { << FarCorner >>, << Pos(4, 3), OffBoard >> }
    ELSE { << FarCorner >> }

\* The paths the callers pass for a piece and an action kind: the legal ones
\* that stay in the region (and end on a caller position when a piece is
\* relocated), and the bad ones.
CallerPaths(action, piece_id, legal) ==
    LET Within(path) == \A i \in 1 .. Len(path) : path[i] \in CallerRegion
        Ends(path) == action \in { "DEFEND", "PUSH" } => Last(path) \in CallerPositions
    IN  (IF action \in CallerKinds
         THEN { q.positions : q \in { l \in legal : Within(l.positions) /\ Ends(l.positions) } }
         ELSE {})
          \cup BadPaths(piece_id)

\* The (game id, piece id) pairs of the callers: every issued id with each
\* caller piece and with an unknown piece, and an unknown game.
CallerTargets ==
    (IssuedIds \X (CallerPieceIds \cup { UnknownPieceId }))
      \cup { << g, "WA01" >> : g \in CallerGameIds \ IssuedIds }

\* The destinations the callers pass to execute_move for a target.
CallerDestinations(t) ==
    IF t[1] \notin IssuedIds \/ t[2] = UnknownPieceId THEN { Pos(4, 3) }
    ELSE CallerPositions \cup { Last(path) : path \in BadPaths(t[2]) }

\* How many matches the callers of a behaviour create.
MayCreate == issued < (IF scope \in { "registry", "threads" } THEN MaxGames ELSE 1)

\* The callers play a match up to a turn cap (none in scope "ceiling" for
\* the modes with a turn limit).
MayPlay(game_id) ==
    IF game_id \notin DOMAIN games THEN TRUE
    ELSE IF games[game_id].over THEN TRUE
    ELSE IF scope = "match" THEN games[game_id].turn_number < MaxPlayTurns
    ELSE IF scope \in { "registry", "threads" }
    THEN games[game_id].turn_number < MaxRegistryTurns
    ELSE IF scope = "bot" THEN games[game_id].turn_number < MaxBotTurns
    ELSE IF games[game_id].mode.golden THEN games[game_id].turn_number < MaxGoldenTurns
    ELSE TRUE

\* The callers stop scoring after MaxGoals goals in a match.
MayScore(game_id, out) ==
    IF game_id \notin DOMAIN games THEN TRUE
    ELSE IF out.panicked THEN TRUE
    ELSE IF out.ret.goal_scored = Nil THEN TRUE
    ELSE games[game_id].score[1] + games[game_id].score[2] < MaxGoals

-----------------------------------------------------------------------------
(* Actions: one per API function.                                          *)

NoCall ==
    [ op |-> "none", game_id |-> 0, panicked |-> FALSE, result |-> ActionResult_error("") ]

\* A thread that is in no call.
IdleThread ==
    [ pc |-> "idle", op |-> "none", game_id |-> 0, mode |-> "QuickMatch",
      piece_id |-> "", to |-> FarCorner, tile |-> 0 ]

InitScope(s) ==
    /\ games = << >>
    /\ poisoned = FALSE
    /\ issued = 0
    /\ last = NoCall
    /\ modes = << >>
    /\ scope = s
    /\ lock = 0
    /\ threads = [ t \in Threads |-> IdleThread ]

\* new_game; the id is the next fresh uuid.
NewGame ==
    /\ MayCreate
    /\ \E mode \in GameModeTypes :
         LET out == new_game(games, issued + 1, mode)
         IN  /\ Invoke("new_game", issued + 1,
                       [ out EXCEPT !.ret = [ ActionResult_error("") EXCEPT !.success = TRUE ] ])
             /\ modes' = IF poisoned THEN modes
                         ELSE [ id \in DOMAIN modes \cup { issued + 1 } |->
                                  IF id = issued + 1 THEN mode ELSE modes[id] ]
    /\ issued' = issued + 1
    /\ UNCHANGED scope

\* delete_game; the bool it returns is recorded as result.success.
DeleteGame ==
    /\ \E game_id \in CallerGameIds :
         LET out == delete_game(games, game_id)
         IN  Invoke("delete_game", game_id,
                    [ out EXCEPT !.ret = [ ActionResult_error("") EXCEPT !.success = out.ret ] ])
    /\ UNCHANGED << issued, modes, scope >>

ExecuteMove ==
    /\ \E t \in CallerTargets :
         \E to \in CallerDestinations(t) :
           LET out == execute_move(games, t[1], t[2], to)
           IN  /\ MayPlay(t[1])
               /\ Invoke("execute", t[1], out)
    /\ UNCHANGED << issued, modes, scope >>

ExecutePass ==
    /\ \E t \in CallerTargets :
         \E path \in CallerPaths("PASS", t[2], get_legal_passes(games, t[1], t[2])) :
           LET out == execute_pass(games, t[1], t[2], path)
           IN  /\ MayPlay(t[1])
               /\ Invoke("execute", t[1], out)
    /\ UNCHANGED << issued, modes, scope >>

ExecuteShoot ==
    /\ \E t \in CallerTargets :
         \E path \in CallerPaths("SHOOT", t[2], get_legal_shoots(games, t[1], t[2])) :
           LET out == execute_shoot(games, t[1], t[2], path)
           IN  /\ MayPlay(t[1])
               /\ MayScore(t[1], out)
               /\ Invoke("execute", t[1], out)
    /\ UNCHANGED << issued, modes, scope >>

ExecuteIntercept ==
    /\ \E t \in CallerTargets :
         \E path \in CallerPaths("INTERCEPT", t[2], get_legal_intercepts(games, t[1], t[2])) :
           LET out == execute_intercept(games, t[1], t[2], path)
           IN  /\ MayPlay(t[1])
               /\ Invoke("execute", t[1], out)
    /\ UNCHANGED << issued, modes, scope >>

ExecuteKick ==
    /\ \E t \in CallerTargets :
         \E path \in CallerPaths("KICK", t[2], get_legal_kicks(games, t[1], t[2])) :
           LET out == execute_kick(games, t[1], t[2], path)
           IN  /\ MayPlay(t[1])
               /\ Invoke("execute", t[1], out)
    /\ UNCHANGED << issued, modes, scope >>

ExecuteDefend ==
    /\ \E t \in CallerTargets :
         \E path \in CallerPaths("DEFEND", t[2], get_legal_defends(games, t[1], t[2])) :
           LET out == execute_defend(games, t[1], t[2], path)
           IN  /\ MayPlay(t[1])
               /\ Invoke("execute", t[1], out)
    /\ UNCHANGED << issued, modes, scope >>

\* execute_push takes the target and the destination of a push path.
ExecutePush ==
    /\ \E t \in CallerTargets :
         \E path \in CallerPaths("PUSH", t[2], get_legal_pushes(games, t[1], t[2])) :
           LET out == execute_push(games, t[1], t[2], path[1], path[Len(path)])
           IN  /\ MayPlay(t[1])
               /\ Invoke("execute", t[1], out)
    /\ UNCHANGED << issued, modes, scope >>

Next ==
    \/ NewGame
    \/ DeleteGame
    \/ ExecuteMove
    \/ ExecutePass
    \/ ExecuteShoot
    \/ ExecuteIntercept
    \/ ExecuteKick
    \/ ExecuteDefend
    \/ ExecutePush

\* One match, every kind of action, played for its first turns.
Spec == InitScope("match") /\ [][Next]_vars

\* One match played to its end with moves and shots only.
SpecCeiling == InitScope("ceiling") /\ [][Next]_vars

\* A call of execute_move that succeeds: the step of ExecuteMove for a piece
\* of the team on turn in a match that is not over, with a destination on
\* the board that the engine accepts (execute_move unfolded for that case:
\* games.get_mut, piece_by_id, to.into(), perform_move, from_outcome).
Succeed ==
    /\ ~poisoned
    /\ \E t \in CallerTargets :
         /\ t[1] \in DOMAIN games
         /\ ~games[t[1]].over
         /\ t[2] \in PieceIds
         /\ Roster[t[2]].team = current_turn(games[t[1]])
         /\ MayPlay(t[1])
         /\ \E to \in CallerDestinations(t) :
              /\ IsSome(BoardTileFrom(to))
              /\ \E game \in { games[t[1]] } :
                   \E r \in { perform_move(game, game.board.pieces[t[2]],
                                            Unwrap(BoardTileFrom(to))) } :
                     /\ r.ok
                     /\ \E out \in { Performed(games, t[1], r) } :
                          Invoke("execute", t[1], out)
    /\ UNCHANGED << issued, modes, scope >>

\* The match of SpecCeiling with callers that keep executing actions that
\* succeed, as long as one is possible.
SpecCeilingFair == InitScope("ceiling") /\ [][Next]_vars /\ WF_vars(Succeed)

\* Several matches side by side, each played for its first turns.
SpecRegistry == InitScope("registry") /\ [][Next]_vars

\* One match, every kind of action around the kickoff spot, up to a golden
\* goal: the states the bot is asked in.
SpecBot == InitScope("bot") /\ [][Next]_vars

\* The variant of a query that takes the match out of the registry
\* (games.remove) instead of borrowing it.
Query_taking(gs, query, game_id, piece_id, difficulty) ==
    Returned([ id \in DOMAIN gs \ { game_id } |-> gs[id] ], ActionResult_error(""))

\* A query: `let games = GAMES.lock().unwrap()` is not mutable and the match
\* is borrowed with games.get(&game_id), so the registry after the call is
\* the registry before it.  What is kept of the answer is whether the query
\* had something to report.
Query(gs, query, game_id, piece_id, difficulty) ==
    LET answered ==
          CASE query = "get_board"            -> IsSome(get_board(gs, game_id))
            [] query = "get_legal_moves"      -> get_legal_moves(gs, game_id, piece_id) # {}
            [] query = "get_legal_passes"     -> get_legal_passes(gs, game_id, piece_id) # {}
            [] query = "get_legal_shoots"     -> get_legal_shoots(gs, game_id, piece_id) # {}
            [] query = "get_legal_intercepts" -> get_legal_intercepts(gs, game_id, piece_id) # {}
            [] query = "get_legal_kicks"      -> get_legal_kicks(gs, game_id, piece_id) # {}
            [] query = "get_legal_defends"    -> get_legal_defends(gs, game_id, piece_id) # {}
            [] query = "get_legal_pushes"     -> get_legal_pushes(gs, game_id, piece_id) # {}
            [] query = "get_bot_move"         -> get_bot_move(gs, game_id, difficulty) # { None }
            [] query = "get_bot_action"       -> get_bot_action(gs, game_id, difficulty) # { None }
            [] query = "is_game_over"         -> is_game_over(gs, game_id)
            [] query = "get_winner"           -> get_winner(gs, game_id) # Nil
            [] query = "game_exists"          -> game_exists(gs, game_id)
    IN  Returned(gs, [ ActionResult_error("") EXCEPT !.success = answered ])

QueryCall ==
    /\ \E query \in { "get_board", "get_legal_moves", "get_legal_passes",
                       "get_legal_shoots", "get_legal_intercepts", "get_legal_kicks",
                       "get_legal_defends", "get_legal_pushes", "get_bot_move",
                       "get_bot_action", "is_game_over", "get_winner", "game_exists" } :
         \E game_id \in CallerGameIds :
           \E piece_id \in IF query \in { "get_board", "get_bot_move", "get_bot_action",
                                          "is_game_over", "get_winner", "game_exists" }
                            THEN { UnknownPieceId }
                            ELSE CallerPieceIds \cup { UnknownPieceId } :
             \E difficulty \in IF query \in { "get_bot_move", "get_bot_action" }
                               THEN Difficulties ELSE { "Easy" } :
               Invoke("query", game_id, Query(games, query, game_id, piece_id, difficulty))
    /\ UNCHANGED << issued, modes, scope >>

NextQueries ==
    \/ Next
    \/ QueryCall

\* The match of SpecBot, with the queries called between the actions.
SpecQueries == InitScope("bot") /\ [][NextQueries]_vars

-----------------------------------------------------------------------------
(* Concurrent callers.  Every API function takes the one Mutex of GAMES     *)
(* (GAMES.lock().unwrap()) and holds the guard until it returns.  A call of *)
(* a thread goes through "lock" (waiting for the Mutex), "find" (the guard  *)
(* is held; the match and the piece are looked up) and, for execute_move,   *)
(* "act" (the Position is converted and the engine action performed).  A    *)
(* per-kind wrapper such as get_legal_kicks starts in "wrapper", outside    *)
(* the lock, and delegates to its helper, which takes the lock.             *)

\* The calls a thread may start: new_game, delete_game, execute_move of the
\* White attacker and, on the first match, the wrapper get_legal_kicks for
\* it.  new_game draws its uuid before it takes the lock.
ThreadCalls ==
    (IF MayCreate
     THEN { [ IdleThread EXCEPT !.pc = "lock", !.op = "new_game", !.game_id = issued + 1 ] }
     ELSE {})
      \cup { [ IdleThread EXCEPT !.pc = "lock", !.op = "delete_game", !.game_id = id ] :
               id \in IssuedIds }
      \cup { [ IdleThread EXCEPT !.pc = "lock", !.op = "execute_move", !.game_id = x[1],
                                 !.piece_id = "WA01", !.to = x[2] ] :
               x \in { y \in IssuedIds \X { Pos(4, 3) } : MayPlay(y[1]) } }
      \cup { [ IdleThread EXCEPT !.pc = "wrapper", !.op = "get_legal_kicks", !.game_id = id,
                                 !.piece_id = "WA01" ] :
               id \in IssuedIds \cap { 1 } }

\* The call of a thread run as one step on a registry.
Sequential(gs, c) ==
    CASE c.op = "new_game"     -> new_game(gs, c.game_id, c.mode)
      [] c.op = "delete_game"  -> delete_game(gs, c.game_id)
      [] c.op = "execute_move" -> execute_move(gs, c.game_id, c.piece_id, c.to)
      [] c.op = "get_legal_kicks" -> Query(gs, "get_legal_kicks", c.game_id, c.piece_id, "Easy")

\* What a call hands back, as the record `last` keeps it (the id of new_game
\* and the bool of delete_game as in NewGame and DeleteGame).
Outcome(c, out) ==
    Call(IF c.op = "execute_move" THEN "execute"
         ELSE IF c.op = "get_legal_kicks" THEN "query" ELSE c.op,
         c.game_id,
         IF out.panicked \/ c.op \in { "execute_move", "get_legal_kicks" } THEN out
         ELSE [ out EXCEPT !.ret = [ ActionResult_error("") EXCEPT
                                       !.success = (c.op = "new_game" \/ out.ret) ] ])

\* The variant of the lock that lets every caller in at once.
LockFree_unchecked == TRUE

\* Mutex::lock: the guard is free.
LockFree == lock = 0

\* The call of thread t returns (or unwinds) with `out`: the guard is dropped.
Leave(t, out) ==
    \E o \in { out } :
      /\ games' = o.games
      /\ poisoned' = o.panicked
      /\ last' = Outcome(threads[t], o)
      /\ modes' = IF threads[t].op = "new_game" /\ ~o.panicked
                  THEN [ id \in DOMAIN modes \cup { threads[t].game_id } |->
                           IF id = threads[t].game_id THEN threads[t].mode ELSE modes[id] ]
                  ELSE modes
      /\ lock' = 0
      /\ threads' = [ threads EXCEPT ![t] = IdleThread ]

\* A thread starts a call.
Begin(t) ==
    /\ threads[t].pc = "idle"
    /\ \E c \in ThreadCalls :
         /\ threads' = [ threads EXCEPT ![t] = c ]
         /\ issued' = IF c.op = "new_game" THEN issued + 1 ELSE issued
    /\ UNCHANGED << games, poisoned, last, modes, scope, lock >>

\* The variant of the wrapper that takes the guard itself before it calls
\* the helper.
Delegate_locking(t) ==
    /\ threads[t].pc = "wrapper"
    /\ LockFree
    /\ lock' = t
    /\ threads' = [ threads EXCEPT ![t].pc = "lock" ]
    /\ UNCHANGED << games, poisoned, issued, last, modes, scope >>

\* get_legal_kicks calls get_legal_action_paths: the wrapper holds no guard.
Delegate(t) ==
    /\ threads[t].pc = "wrapper"
    /\ threads' = [ threads EXCEPT ![t].pc = "lock" ]
    /\ UNCHANGED << games, poisoned, issued, last, modes, scope, lock >>

\* GAMES.lock().unwrap(): the thread gets the guard when it is free, and
\* panics when the Mutex is poisoned.
Acquire(t) ==
    /\ threads[t].pc = "lock"
    /\ LockFree
    /\ IF poisoned
       THEN /\ last' = Outcome(threads[t], Panicked(games))
            /\ threads' = [ threads EXCEPT ![t] = IdleThread ]
            /\ UNCHANGED lock
       ELSE /\ lock' = t
            /\ threads' = [ threads EXCEPT ![t].pc = "find" ]
            /\ UNCHANGED last
    /\ UNCHANGED << games, poisoned, issued, modes, scope >>

\* Under the guard: new_game inserts, delete_game removes, execute_move
\* looks up the match and the tile of the piece.
Find(t) ==
    LET c == threads[t]
    IN  /\ c.pc = "find"
        /\ IF c.op # "execute_move" THEN Leave(t, Sequential(games, c))
           ELSE IF c.game_id \notin DOMAIN games
           THEN Leave(t, Returned(games, ActionResult_error("Game not found")))
           ELSE IF ~IsSome(piece_by_id(games[c.game_id], c.piece_id))
           THEN Leave(t, Returned(games, ActionResult_error("Piece not found")))
           ELSE /\ threads' = [ threads EXCEPT
                                  ![t].pc = "act",
                                  ![t].tile = Unwrap(piece_by_id(games[c.game_id], c.piece_id))[1] ]
                /\ UNCHANGED << games, poisoned, last, modes, lock >>
        /\ UNCHANGED << issued, scope >>

\* Under the guard: to.into() and perform_move from the tile found.
Act(t) ==
    LET c == threads[t]
    IN  /\ c.pc = "act"
        /\ IF ~IsSome(BoardTileFrom(c.to)) THEN Leave(t, Panicked(games))
           ELSE \E r \in { perform_move(games[c.game_id], c.tile,
                                         Unwrap(BoardTileFrom(c.to))) } :
                  Leave(t, Performed(games, c.game_id, r))
        /\ UNCHANGED << issued, scope >>

NextThreads ==
    \E t \in Threads : Begin(t) \/ Delegate(t) \/ Acquire(t) \/ Find(t) \/ Act(t)

\* Several matches called from several threads at once.
SpecThreads == InitScope("threads") /\ [][NextThreads]_vars

\* The same under fair scheduling: a thread that keeps finding the Mutex free
\* again and again gets it, and a thread that can run does.
SpecThreadsFair ==
    /\ InitScope("threads")
    /\ [][NextThreads]_vars
    /\ \A t \in Threads :
         SF_vars(Acquire(t)) /\ WF_vars(Delegate(t) \/ Find(t) \/ Act(t))

-----------------------------------------------------------------------------
(* What a caller observes, and the pairing of each legal-destination query *)
(* with its execute_* function.                                            *)

\* The snapshot of a match: get_board, is_game_over and get_winner.
Snapshot(gs, game_id) ==
    << get_board(gs, game_id), is_game_over(gs, game_id), get_winner(gs, game_id) >>

\* The legal set of a piece and an action kind, as paths of positions
\* (get_legal_moves returns single destinations).
LegalOf(gs, game_id, piece_id, action) ==
    CASE action = "MOVE"      -> { << p >> : p \in get_legal_moves(gs, game_id, piece_id) }
      [] action = "PASS"      -> { q.positions : q \in get_legal_passes(gs, game_id, piece_id) }
      [] action = "SHOOT"     -> { q.positions : q \in get_legal_shoots(gs, game_id, piece_id) }
      [] action = "INTERCEPT" -> { q.positions : q \in get_legal_intercepts(gs, game_id, piece_id) }
      [] action = "KICK"      -> { q.positions : q \in get_legal_kicks(gs, game_id, piece_id) }
      [] action = "DEFEND"    -> { q.positions : q \in get_legal_defends(gs, game_id, piece_id) }
      [] action = "PUSH"      -> { q.positions : q \in get_legal_pushes(gs, game_id, piece_id) }

\* The execute_* call of an action kind on a path of positions.
ExecuteOf(gs, game_id, piece_id, action, path) ==
    CASE action = "MOVE"      -> execute_move(gs, game_id, piece_id, path[Len(path)])
      [] action = "PASS"      -> execute_pass(gs, game_id, piece_id, path)
      [] action = "SHOOT"     -> execute_shoot(gs, game_id, piece_id, path)
      [] action = "INTERCEPT" -> execute_intercept(gs, game_id, piece_id, path)
      [] action = "KICK"      -> execute_kick(gs, game_id, piece_id, path)
      [] action = "DEFEND"    -> execute_defend(gs, game_id, piece_id, path)
      [] action = "PUSH"      -> execute_push(gs, game_id, piece_id, path[1], path[Len(path)])

\* The team of a piece as the snapshot shows it.
TeamOf(gs, game_id, piece_id) ==
    LET shown == { p \in Unwrap(get_board(gs, game_id)).pieces : p.id = piece_id }
    IN  (CHOOSE p \in shown : TRUE).team

\* The registry with the other team on turn in one match: what the legal
\* sets of the pieces off turn would be.
OtherTurn(gs, game_id) ==
    [ gs EXCEPT ![game_id].board.turn = Opponent(@) ]

\* The paths submitted for a piece and a kind when every input is tried: the
\* legal ones, the ones legal were the other team on turn, a far tile, a
\* tile next to the kickoff spot, and two that leave the board.
AnyPaths(gs, game_id, piece_id, action) ==
    LegalOf(gs, game_id, piece_id, action)
      \cup LegalOf(OtherTurn(gs, game_id), game_id, piece_id, action)
      \cup { << FarCorner >>, << Pos(4, 3) >>, << OffBoard >>, << Pos(4, 3), OffBoard >> }

\* The last call was an execute_* that returned a failure.
FailedExecute(call) ==
    call.op = "execute" /\ ~call.panicked /\ ~call.result.success

\* The last call was an execute_* that returned success.
SucceededExecute(call) ==
    call.op = "execute" /\ ~call.panicked /\ call.result.success

-----------------------------------------------------------------------------
(* C1.  A failed execute_* changes nothing.                                 *)

\* C1: whenever an execute_* call returns success = false, the registry
\* holds the same matches as before and the snapshot of every match
\* (get_board, is_game_over, get_winner) is the one taken before the call.
C1_FailedExecuteChangesNothing ==
    [][ FailedExecute(last')
          => /\ DOMAIN games' = DOMAIN games
             /\ \A id \in DOMAIN games : Snapshot(games', id) = Snapshot(games, id) ]_vars

\* An illegal action has just been refused in the middle of a turn, one
\* action left, in a match that is not over.
C1_Witness ==
    /\ FailedExecute(last)
    /\ last.result.message = "IllegalAction"
    /\ last.game_id \in DOMAIN games
    /\ ~is_game_over(games, last.game_id)
    /\ Unwrap(get_board(games, last.game_id)).actions_remaining = 1

-----------------------------------------------------------------------------
(* C2.  An action outside the legal set is refused.                         *)

\* C2: in every state of an existing match, for every piece, action kind
\* and submitted path, an execute_* whose path is not in the legal set of
\* the piece and kind, or whose piece is of the team not on turn, returns
\* success = false with the failure IllegalAction.
C2_IllegalExecuteFails ==
    \A id \in DOMAIN games : \A piece_id \in PieceIds : \A action \in EngineActions :
      \A path \in AnyPaths(games, id, piece_id, action) :
        (\/ path \notin LegalOf(games, id, piece_id, action)
         \/ TeamOf(games, id, piece_id) # Unwrap(get_board(games, id)).current_turn)
          => LET out == ExecuteOf(games, id, piece_id, action, path)
             IN  /\ ~out.panicked
                 /\ ~out.ret.success
                 /\ out.ret.message = "IllegalAction"

-----------------------------------------------------------------------------
(* C3.  An action of the legal set is accepted.                             *)

\* C3 as stated: in every state of an existing match, over or not, every
\* path a legal-destination query returns for a piece and a kind is accepted
\* by the matching execute_* (success = true).
C3_LegalIsAccepted ==
    \A id \in DOMAIN games : \A piece_id \in PieceIds : \A action \in EngineActions :
      \A path \in LegalOf(games, id, piece_id, action) :
        LET out == ExecuteOf(games, id, piece_id, action, path)
        IN  ~out.panicked /\ out.ret.success

\* C3 amended: in every state of an existing match that is not over, every
\* path a legal-destination query returns for a piece and a kind is accepted
\* by the matching execute_* (success = true).
C3_LegalIsAcceptedBeforeTheEnd ==
    \A id \in DOMAIN games : \A piece_id \in PieceIds : \A action \in EngineActions :
      ~is_game_over(games, id)
        => \A path \in LegalOf(games, id, piece_id, action) :
             LET out == ExecuteOf(games, id, piece_id, action, path)
             IN  ~out.panicked /\ out.ret.success

\* Black is on turn in a running match and a push it may make is accepted.
C3_Witness ==
    \E id \in DOMAIN games :
      /\ ~is_game_over(games, id)
      /\ Unwrap(get_board(games, id)).current_turn = "Black"
      /\ \E path \in LegalOf(games, id, "BA01", "PUSH") :
           ExecuteOf(games, id, "BA01", "PUSH", path).ret.success

-----------------------------------------------------------------------------
(* C4.  The action budget as the snapshot shows it.                         *)

\* C4: after every call the snapshot of every match shows actions-remaining
\* 1 or 2, never 0; a successful execute_* on a match with one action left
\* returns with the other team on turn and actions-remaining back at 2.
C4_BudgetNeverSeenEmpty ==
    [][ \A id \in DOMAIN games' :
          LET after == Unwrap(get_board(games', id))
          IN  /\ after.actions_remaining \in { 1, ActionsPerTurn }
              /\ (/\ id \in DOMAIN games
                  /\ SucceededExecute(last')
                  /\ last'.game_id = id
                  /\ Unwrap(get_board(games, id)).actions_remaining = 1)
                   => /\ after.actions_remaining = ActionsPerTurn
                      /\ after.current_turn # Unwrap(get_board(games, id)).current_turn ]_vars

\* The second action of White has just been executed: Black is on turn with
\* two actions.
C4_Witness ==
    /\ SucceededExecute(last)
    /\ last.result.turn_ended
    /\ last.game_id \in DOMAIN games
    /\ Unwrap(get_board(games, last.game_id)).current_turn = "Black"
    /\ Unwrap(get_board(games, last.game_id)).actions_remaining = ActionsPerTurn

-----------------------------------------------------------------------------
(* C5.  One unit of budget per successful action.                           *)

\* C5: a successful execute_* on a match that is not over takes
\* actions-remaining from 2 to 1 with the team on turn and the turn number
\* unchanged, or from 1 to 2 with the other team on turn and the turn number
\* one higher; in every call the turn number of a match never decreases and
\* the team on turn changes only in a successful execute_* that used the
\* last action.
C5_OneUnitPerAction ==
    [][ \A id \in DOMAIN games \cap DOMAIN games' :
          LET before == Unwrap(get_board(games, id))
              after == Unwrap(get_board(games', id))
              acted == SucceededExecute(last') /\ last'.game_id = id
          IN  /\ (acted /\ ~is_game_over(games, id) /\ before.actions_remaining = ActionsPerTurn)
                   => /\ after.actions_remaining = ActionsPerTurn - 1
                      /\ after.current_turn = before.current_turn
                      /\ after.turn_number = before.turn_number
              /\ (acted /\ ~is_game_over(games, id) /\ before.actions_remaining = 1)
                   => /\ after.actions_remaining = ActionsPerTurn
                      /\ after.current_turn # before.current_turn
                      /\ after.turn_number = before.turn_number + 1
              /\ after.turn_number >= before.turn_number
              /\ after.current_turn # before.current_turn
                   => acted /\ before.actions_remaining = 1 ]_vars

\* Two turns have been played: White is on turn again in turn 2.
C5_Witness ==
    /\ SucceededExecute(last)
    /\ last.game_id \in DOMAIN games
    /\ Unwrap(get_board(games, last.game_id)).current_turn = "White"
    /\ Unwrap(get_board(games, last.game_id)).turn_number = InitialTurnNumber + 2

-----------------------------------------------------------------------------
(* C6.  The first snapshot of a match.                                      *)

\* The snapshot of a match at kickoff.
FreshSnapshot(gs, game_id) ==
    LET board == Unwrap(get_board(gs, game_id))
        Of(team) == { p \in board.pieces : p.team = team }
        holders == { p \in board.pieces : p.has_ball }
    IN  /\ Cardinality(board.pieces) = 2 * PiecesPerTeam
        /\ Cardinality(Of("White")) = PiecesPerTeam
        /\ Cardinality(Of("Black")) = PiecesPerTeam
        /\ \A team \in { "White", "Black" } :
             Cardinality({ p \in Of(team) : p.role = "Goalkeeper" }) = 1
        /\ Cardinality({ p.id : p \in board.pieces }) = 2 * PiecesPerTeam
        /\ Cardinality(holders) = 1
        /\ \A p \in holders : p.team = "White" /\ p.role = "Attacker"
        /\ board.ball_position = None
        /\ board.current_turn = "White"
        /\ board.actions_remaining = ActionsPerTurn
        /\ board.white_score = 0
        /\ board.black_score = 0
        /\ board.turn_number = InitialTurnNumber
        /\ ~is_game_over(gs, game_id)
        /\ get_winner(gs, game_id) = Nil

\* C6: right after new_game returns, in each of the three modes, the
\* snapshot of the new match shows 14 pieces with distinct ids, 7 per team,
\* one Goalkeeper per team, the ball with exactly one piece, a White
\* Attacker, no loose ball, White on turn with 2 actions, 0-0, the initial
\* turn number, the match not over and no winner.
C6_FreshMatch ==
    (last.op = "new_game" /\ ~last.panicked)
      => /\ last.game_id \in DOMAIN games
         /\ modes[last.game_id] \in GameModeTypes
         /\ FreshSnapshot(games, last.game_id)

\* A GoldenGoal match has just been created.
C6_Witness ==
    /\ last.op = "new_game"
    /\ ~last.panicked
    /\ last.game_id \in DOMAIN games
    /\ modes[last.game_id] = "GoldenGoal"

-----------------------------------------------------------------------------
(* C7.  The end of a match is final.                                        *)

\* C7: once is_game_over is true for an existing match then, after every
\* call that does not delete it, the API calls still return (none panics),
\* is_game_over is still true, get_winner returns the same value, and an
\* execute_* on the match has returned success = false.
C7_TerminalIsAbsorbing ==
    [][ \A id \in DOMAIN games \cap DOMAIN games' :
          is_game_over(games, id)
            => /\ ~poisoned'
               /\ is_game_over(games', id)
               /\ get_winner(games', id) = get_winner(games, id)
               /\ (last'.op = "execute" /\ last'.game_id = id)
                    => FailedExecute(last') ]_vars

-----------------------------------------------------------------------------
(* C8.  What a rejection on a finished match reports.                       *)

\* C8: the result of an execute_* rejected on a match that is over has
\* game_over = true and the winner get_winner returns for the match.
C8_RejectionCarriesTerminalState ==
    (/\ FailedExecute(last)
     /\ last.game_id \in DOMAIN games
     /\ is_game_over(games, last.game_id))
      => /\ last.result.game_over
         /\ last.result.winner = get_winner(games, last.game_id)

-----------------------------------------------------------------------------
(* C9.  GoldenGoal: the first goal ends the match.                          *)

\* C9: in a GoldenGoal match the execute_* that scores (the score of the
\* snapshot rises) returns goal_scored = the scoring team, game_over = true
\* and winner = the scoring team, with one or two actions left before the
\* call; is_game_over is true and get_winner is the scoring team from then
\* on, whenever they return; and a GoldenGoal match at 0-0 is not over.
C9_GoldenGoalEndsMatch ==
    [][ \A id \in DOMAIN games' :
          modes'[id] = "GoldenGoal"
            => LET after == Unwrap(get_board(games', id))
               IN  /\ (after.white_score = 0 /\ after.black_score = 0)
                        => ~is_game_over(games', id)
                   /\ id \in DOMAIN games
                        => LET before == Unwrap(get_board(games, id))
                               scorer == IF after.white_score > before.white_score
                                         THEN "White" ELSE "Black"
                           IN  /\ (after.white_score + after.black_score
                                     > before.white_score + before.black_score)
                                    => /\ SucceededExecute(last')
                                       /\ last'.game_id = id
                                       /\ scorer = before.current_turn
                                       /\ last'.result.goal_scored = scorer
                                       /\ last'.result.game_over
                                       /\ last'.result.winner = scorer
                                       /\ is_game_over(games', id)
                                       /\ get_winner(games', id) = scorer
                               /\ is_game_over(games, id)
                                    => /\ is_game_over(games', id)
                                       /\ get_winner(games', id) = get_winner(games, id) ]_vars

\* White has scored in a GoldenGoal match with the first action of a turn.
C9_Witness ==
    /\ SucceededExecute(last)
    /\ last.game_id \in DOMAIN games
    /\ modes[last.game_id] = "GoldenGoal"
    /\ last.result.goal_scored = "White"
    /\ ~last.result.turn_ended
    /\ is_game_over(games, last.game_id)

-----------------------------------------------------------------------------
(* C10.  QuickMatch and StandardMatch end at the turn ceiling.              *)

\* The ceiling of a mode with a turn limit.
Ceiling(mode) == IF mode = "QuickMatch" THEN QuickMatchTurns ELSE StandardMatchTurns

\* C10: a QuickMatch or StandardMatch is over exactly in the states whose
\* turn number has reached the ceiling of its mode (10, 20): never below
\* it, goals or not, and as soon as the turn number is the ceiling.
C10_OverAtTheCeiling ==
    \A id \in DOMAIN games :
      modes[id] \in { "QuickMatch", "StandardMatch" }
        => LET board == Unwrap(get_board(games, id))
           IN  /\ board.turn_number <= Ceiling(modes[id])
               /\ is_game_over(games, id) <=> board.turn_number = Ceiling(modes[id])

\* A StandardMatch in which a goal was scored has reached turn 20 and is over.
C10_Witness ==
    \E id \in DOMAIN games :
      /\ modes[id] = "StandardMatch"
      /\ is_game_over(games, id)
      /\ Unwrap(get_board(games, id)).turn_number = StandardMatchTurns
      /\ Unwrap(get_board(games, id)).white_score = 1

-----------------------------------------------------------------------------
(* C11.  The winner at the turn ceiling.                                    *)

\* The team with the strictly higher score in a snapshot, Nil on a tie.
HigherScore(board) ==
    IF board.white_score > board.black_score THEN "White"
    ELSE IF board.black_score > board.white_score THEN "Black"
    ELSE Nil

\* C11: when a QuickMatch or StandardMatch is over, get_winner returns the
\* team with the strictly higher score and None on a tie, and so does the
\* result of the action that ended the match.
C11_WinnerAtTheCeiling ==
    \A id \in DOMAIN games :
      (modes[id] \in { "QuickMatch", "StandardMatch" } /\ is_game_over(games, id))
        => LET board == Unwrap(get_board(games, id))
           IN  /\ get_winner(games, id) = HigherScore(board)
               /\ (SucceededExecute(last) /\ last.game_id = id)
                    => /\ last.result.game_over
                       /\ last.result.winner = HigherScore(board)

\* A QuickMatch has just ended 0-0: no winner.
C11_Witness ==
    /\ SucceededExecute(last)
    /\ last.game_id \in DOMAIN games
    /\ modes[last.game_id] = "QuickMatch"
    /\ last.result.game_over
    /\ last.result.winner = Nil
    /\ Unwrap(get_board(games, last.game_id)).white_score = 0
    /\ Unwrap(get_board(games, last.game_id)).black_score = 0

-----------------------------------------------------------------------------
(* C12.  No call panics.                                                    *)

\* C12: every execute_* call returns an ActionResult, whatever its input,
\* and every later API call still returns: no call has panicked and the
\* Mutex of GAMES is not poisoned.
C12_NoCallPanics ==
    ~last.panicked /\ ~poisoned

-----------------------------------------------------------------------------
(* C13.  delete_game removes its match and no other.                        *)

\* C13: a delete_game(id) that returns, returns true exactly when the match
\* was in the registry before the call; after it game_exists(id) is false
\* and a second delete_game(id) returns false; every other match is still
\* there with the same state and the same snapshot.
C13_DeleteRemovesOnlyItsMatch ==
    [][ (last'.op = "delete_game" /\ ~last'.panicked)
          => LET id == last'.game_id
             IN  /\ last'.result.success = game_exists(games, id)
                 /\ ~game_exists(games', id)
                 /\ ~delete_game(games', id).ret
                 /\ DOMAIN games' = DOMAIN games \ { id }
                 /\ \A other \in DOMAIN games \ { id } :
                      /\ games'[other] = games[other]
                      /\ Snapshot(games', other) = Snapshot(games, other) ]_vars

\* A delete_game returned true while another match, already played in,
\* stays in the registry.
C13_Witness ==
    /\ last.op = "delete_game"
    /\ ~last.panicked
    /\ last.result.success
    /\ \E other \in DOMAIN games : games[other].actions_remaining < ActionsPerTurn

-----------------------------------------------------------------------------
(* C14.  A deleted match is unknown for ever.                               *)

\* What every call on an unknown game id returns: no board, over, no winner,
\* empty legal sets, no bot suggestion, and "Game not found" from execute_*.
BehavesAsUnknown(gs, id) ==
    /\ ~game_exists(gs, id)
    /\ Snapshot(gs, id) = << None, TRUE, Nil >>
    /\ \A d \in Difficulties :
         get_bot_move(gs, id, d) = { None } /\ get_bot_action(gs, id, d) = { None }
    /\ \A piece_id \in CallerPieceIds, action \in EngineActions :
         /\ LegalOf(gs, id, piece_id, action) = {}
         /\ \A path \in { << Pos(4, 3) >>, << OffBoard >> } :
              ExecuteOf(gs, id, piece_id, action, path)
                = Returned(gs, ActionResult_error("Game not found"))

\* C14 (the ids created and deleted since are DOMAIN modes \ DOMAIN games):
\* once delete_game(id) has returned true, every later call on that id
\* behaves as on an unknown id, for ever: get_board none, execute_* fails with
\* a not-found message, legal queries empty, the bot functions none; and no
\* call on that id panics.
C14_DeletedIsUnknownForEver ==
    \A id \in DOMAIN modes \ DOMAIN games :
      /\ BehavesAsUnknown(games, id)
      /\ last.game_id = id => ~last.panicked
      /\ (last.game_id = id /\ last.op = "execute")
           => last.result = ActionResult_error("Game not found")

-----------------------------------------------------------------------------
(* C15.  Legal queries on an unknown match or piece are empty.              *)

\* C15: for each of the seven action kinds, the legal-destination query
\* returns the empty collection for a game id that is not registered (0, a
\* deleted one, one not issued yet; whatever the piece id) and for a
\* registered match with a piece id no piece has.
C15_UnknownQueriesAreEmpty ==
    \A action \in EngineActions :
      /\ \A id \in (0 .. MaxGames + 1) \ DOMAIN games,
            piece_id \in PieceIds \cup { UnknownPieceId, "" } :
           LegalOf(games, id, piece_id, action) = {}
      /\ \A id \in DOMAIN games, piece_id \in { UnknownPieceId, "" } :
           LegalOf(games, id, piece_id, action) = {}

\* A match in play whose ball holder has legal moves and passes, queried
\* with an unknown piece id.
C15_Witness ==
    /\ SucceededExecute(last)
    /\ \E id \in DOMAIN games :
         LET holder == ball_holder(games[id])
         IN  /\ holder # Nil
             /\ LegalOf(games, id, holder, "MOVE") # {}
             /\ LegalOf(games, id, holder, "PASS") # {}
             /\ LegalOf(games, id, UnknownPieceId, "MOVE") = {}
             /\ LegalOf(games, id, UnknownPieceId, "PASS") = {}

-----------------------------------------------------------------------------
(* C16.  Legal queries are empty off turn and for a kind out of reach.      *)

-----------------------------------------------------------------------------
(* C17.  The bot returns None only without a match or without a candidate.  *)

\* The side to move has no legal action, as the legal queries show it.
NoLegalCandidate(gs, id) ==
    LET board == Unwrap(get_board(gs, id))
    IN  \A piece \in { p \in board.pieces : p.team = board.current_turn } :
          \A action \in EngineActions : LegalOf(gs, id, piece.id, action) = {}

\* C17: get_bot_action and get_bot_move can return None only for a game id
\* that is not registered or for a match whose side to move has no legal
\* action; for a match just created, in any mode and for both difficulties,
\* they return an action.
C17_BotNoneOnlyWithoutCandidate ==
    \A d \in Difficulties :
      /\ \A id \in 0 .. MaxGames :
           (None \in get_bot_action(games, id, d) \/ None \in get_bot_move(games, id, d))
             => (id \notin DOMAIN games \/ NoLegalCandidate(games, id))
      /\ (last.op = "new_game" /\ ~last.panicked)
           => /\ None \notin get_bot_action(games, last.game_id, d)
              /\ None \notin get_bot_move(games, last.game_id, d)

\* A golden-goal match was just created: the bot has an action for it at
\* both difficulties, and none for an id that is not registered.
C17_Witness ==
    /\ last.op = "new_game"
    /\ ~last.panicked
    /\ modes[last.game_id] = "GoldenGoal"
    /\ \A d \in Difficulties :
         /\ get_bot_action(games, last.game_id, d) # {}
         /\ None \notin get_bot_action(games, last.game_id, d)
         /\ None \notin get_bot_move(games, last.game_id, d)
         /\ get_bot_action(games, 0, d) = { None }

-----------------------------------------------------------------------------
(* C18.  What the bot returns can be played.                                *)

\* The execute_* call of a BotAction: the one of its action type.
ExecuteBotAction(gs, id, a) ==
    CASE a.action_type = "Move"      -> execute_move(gs, id, a.piece_id, Last(a.path))
      [] a.action_type = "Pass"      -> execute_pass(gs, id, a.piece_id, a.path)
      [] a.action_type = "Shoot"     -> execute_shoot(gs, id, a.piece_id, a.path)
      [] a.action_type = "Intercept" -> execute_intercept(gs, id, a.piece_id, a.path)
      [] a.action_type = "Kick"      -> execute_kick(gs, id, a.piece_id, a.path)
      [] a.action_type = "Defend"    -> execute_defend(gs, id, a.piece_id, a.path)
      [] a.action_type = "Push"      -> execute_push(gs, id, a.piece_id, a.path[1], Last(a.path))

\* The piece id is not empty and names a piece the snapshot shows in the
\* team on turn.
OnTurnPiece(board, piece_id) ==
    /\ piece_id # ""
    /\ \E piece \in board.pieces : piece.id = piece_id /\ piece.team = board.current_turn

\* What the claim asks of every value the bot functions may return for a
\* match, at a difficulty.
BotActionsPlayable(gs, id, d) ==
    LET board == Unwrap(get_board(gs, id))
    IN  /\ \A r \in get_bot_action(gs, id, d) :
             IsSome(r) =>
               LET a == Unwrap(r)
                   out == ExecuteBotAction(gs, id, a)
               IN  /\ OnTurnPiece(board, a.piece_id)
                   /\ Len(a.path) > 0
                   /\ \A i \in 1 .. Len(a.path) :
                        a.path[i].row < BoardSize /\ a.path[i].col < BoardSize
                   /\ ~out.panicked
                   /\ out.ret.success
        /\ \A r \in get_bot_move(gs, id, d) :
             IsSome(r) => /\ OnTurnPiece(board, Unwrap(r)[1])
                          /\ Unwrap(r)[2].row < BoardSize
                          /\ Unwrap(r)[2].col < BoardSize

\* C18 as stated: in every state of an existing match, over or not, every
\* action the bot returns names a piece of the team on turn, has a non-empty
\* path on the board, and succeeds when submitted to the execute_* of its
\* action type on that state.
C18_BotActionSucceeds ==
    \A id \in DOMAIN games : \A d \in Difficulties : BotActionsPlayable(games, id, d)

\* C18 amended: the same in every state of an existing match that is not
\* over.
C18_BotActionSucceedsBeforeTheEnd ==
    \A id \in DOMAIN games : \A d \in Difficulties :
      ~is_game_over(games, id) => BotActionsPlayable(games, id, d)

\* A running match in play where the bot may return an action other than a
\* move, which the execute_* of its type accepts.
C18_Witness ==
    /\ SucceededExecute(last)
    /\ \E id \in DOMAIN games :
         /\ ~is_game_over(games, id)
         /\ \E r \in get_bot_action(games, id, "Medium") :
              /\ IsSome(r)
              /\ Unwrap(r).action_type # "Move"
              /\ ExecuteBotAction(games, id, Unwrap(r)).ret.success

-----------------------------------------------------------------------------
(* C19.  Calls on one match are serialized.                                 *)

\* C19: at most one call is in flight, and it is the one of the thread that
\* holds the guard; the registry changes only in the step in which the call
\* in flight returns, and then the registry, the result and the poisoning
\* are those of the whole call run as one step on the registry of that
\* moment (so the calls take effect one at a time, in the order in which
\* they return); and while an execute_move waits between its piece lookup
\* and its engine action, the piece is still on the tile it was found on.
C19_CallsAreSerialized ==
    [][ /\ \A t \in Threads : (threads'[t].pc \in { "find", "act" }) <=> (lock' = t)
        /\ \A t \in Threads :
             threads'[t].pc = "act"
               => /\ threads'[t].game_id \in DOMAIN games'
                  /\ IsSome(piece_by_id(games'[threads'[t].game_id], threads'[t].piece_id))
                  /\ Unwrap(piece_by_id(games'[threads'[t].game_id],
                                        threads'[t].piece_id))[1] = threads'[t].tile
        /\ \A t \in Threads :
             (threads[t].pc \in { "find", "act" } /\ threads'[t].pc = "idle")
               => LET out == Sequential(games, threads[t])
                  IN  /\ games' = out.games
                      /\ poisoned' = out.panicked
                      /\ last' = Outcome(threads[t], out)
        /\ (games' # games \/ last' # last)
             => \E t \in Threads : threads[t].pc # "idle" /\ threads'[t].pc = "idle" ]_vars

\* Two threads called execute_move on the same match at once: one has
\* returned with success, the other holds the guard between its lookup and
\* its action.
C19_Witness ==
    /\ SucceededExecute(last)
    /\ \E t \in Threads :
         /\ threads[t].pc = "act"
         /\ threads[t].game_id = last.game_id
         /\ \E u \in Threads \ { t } : threads[u].pc = "lock"

-----------------------------------------------------------------------------
(* C20.  Calls on different matches do not wait for one another.            *)

\* C20: no thread waits for the guard while the thread holding it is in a
\* call on a different existing match.
C20_NeverBlockedByAnotherMatch ==
    \A t \in Threads, u \in Threads :
      ~ /\ threads[t].pc = "lock"
        /\ lock = u
        /\ threads[u].pc \in { "find", "act" }
        /\ threads[t].game_id \in DOMAIN games
        /\ threads[u].game_id \in DOMAIN games
        /\ threads[t].game_id # threads[u].game_id

-----------------------------------------------------------------------------
(* C21.  The status queries agree with the registry.                        *)

\* C21: in every state and for every game id (registered, deleted, never
\* issued), game_exists is true exactly for the registered ids, is_game_over
\* is true exactly when the id is not registered or its match is terminal,
\* and get_winner is None for an id that is not registered and for a match
\* that is not over.
C21_StatusAgreesWithRegistry ==
    \A id \in 0 .. MaxGames + 1 :
      /\ game_exists(games, id) <=> id \in DOMAIN games
      /\ is_game_over(games, id) <=> (IF id \in DOMAIN games THEN is_over(games[id]) ELSE TRUE)
      /\ id \notin DOMAIN games => get_winner(games, id) = Nil
      /\ ~is_game_over(games, id) => get_winner(games, id) = Nil

\* A match has just been won and is over with its winner, while an id that is
\* not registered counts as over without a winner.
C21_Witness ==
    /\ SucceededExecute(last)
    /\ last.result.game_over
    /\ game_exists(games, last.game_id)
    /\ is_game_over(games, last.game_id)
    /\ get_winner(games, last.game_id) = "White"
    /\ ~game_exists(games, 0)
    /\ is_game_over(games, 0)
    /\ get_winner(games, 0) = Nil

-----------------------------------------------------------------------------
(* C22.  The "no team" value of the engine is never exposed.                *)

\* C22: after every call that creates or changes a match, the team on turn,
\* the team of every piece and the winner (when there is one) are the
\* engine's White or Black, never its None team, and the snapshot shows them
\* as they are; and the
\* goal_scored of a successful execute_* is the team whose score has grown,
\* absent when no score has: the fallback arm that turns the engine's None
\* team into White is never taken.
C22_NoTeamSentinelExposed ==
    [][ \A id \in { i \in DOMAIN games' :
                       IF i \in DOMAIN games THEN games'[i] # games[i] ELSE TRUE } :
          LET game  == games'[id]
              board == Unwrap(get_board(games', id))
              Own(t) == IF t = EngineTeamWhite THEN "White"
                        ELSE IF t = EngineTeamBlack THEN "Black"
                        ELSE "NoTeam"
          IN  /\ board.current_turn = Own(current_turn(game))
              /\ \A p \in all_pieces(game) :
                   \E shown \in board.pieces : shown.id = p[1] /\ shown.team = Own(p[3].team)
              /\ get_winner(games', id) = (IF winner(game) = Nil THEN Nil ELSE Own(winner(game)))
              /\ (SucceededExecute(last') /\ last'.game_id = id /\ id \in DOMAIN games)
                   => LET old == Unwrap(get_board(games, id))
                      IN  /\ last'.result.goal_scored
                               = (IF board.white_score > old.white_score THEN "White"
                                  ELSE IF board.black_score > old.black_score THEN "Black"
                                  ELSE Nil)
                          /\ last'.result.winner = get_winner(games', id) ]_vars

\* White has just won a match by a goal: the result names White as scorer
\* and winner, and the snapshot has Black or White on turn.
C22_Witness ==
    /\ SucceededExecute(last)
    /\ last.game_id \in DOMAIN games
    /\ last.result.goal_scored = "White"
    /\ last.result.winner = "White"
    /\ get_winner(games, last.game_id) = "White"
    /\ Unwrap(get_board(games, last.game_id)).current_turn \in { "White", "Black" }

-----------------------------------------------------------------------------
(* C23.  The ball is held or loose, never both and never neither.           *)

\* C23: in the snapshot of every match either exactly one piece has
\* has_ball and ball_position is absent, or no piece has has_ball and
\* ball_position is a tile on the board.
C23_BallHeldOrLoose ==
    \A id \in DOMAIN games :
      LET board   == Unwrap(get_board(games, id))
          holders == { p \in board.pieces : p.has_ball }
      IN  IF holders = {}
          THEN /\ IsSome(board.ball_position)
               /\ Unwrap(board.ball_position).row < BoardSize
               /\ Unwrap(board.ball_position).col < BoardSize
          ELSE /\ Cardinality(holders) = 1
               /\ board.ball_position = None

\* A shot or a kick has left the ball loose on a tile of the board.
C23_Witness ==
    /\ SucceededExecute(last)
    /\ \E id \in DOMAIN games :
         LET board == Unwrap(get_board(games, id))
         IN  /\ IsSome(board.ball_position)
             /\ \A p \in board.pieces : ~p.has_ball

-----------------------------------------------------------------------------
(* C24.  The pieces of a match are conserved.                               *)

\* C24: whatever actions succeeded or failed, the snapshot of every match
\* holds the 14 pieces of its creation (same ids, teams and roles), each on
\* a tile with row and column in 0..7, and no two of them on the same tile.
C24_PiecesConserved ==
    LET Identity(board) == { << p.id, p.team, p.role >> : p \in board.pieces }
        created == Unwrap(get_board(new_game(<< >>, 1, "QuickMatch").games, 1))
    IN  \A id \in DOMAIN games :
          LET board == Unwrap(get_board(games, id))
          IN  /\ Cardinality(board.pieces) = 2 * PiecesPerTeam
              /\ Cardinality({ p.id : p \in board.pieces }) = 2 * PiecesPerTeam
              /\ Identity(board) = Identity(created)
              /\ \A p \in board.pieces :
                   p.position.row < BoardSize /\ p.position.col < BoardSize
              /\ Cardinality({ p.position : p \in board.pieces }) = 2 * PiecesPerTeam

\* A successful action has left two pieces of a match away from the tiles
\* of their creation.
C24_Witness ==
    /\ SucceededExecute(last)
    /\ last.game_id \in DOMAIN games
    /\ LET created == Unwrap(get_board(new_game(<< >>, 1, "QuickMatch").games, 1))
           board   == Unwrap(get_board(games, last.game_id))
       IN  Cardinality(board.pieces \ created.pieces) >= 2
           /\ \E p \in board.pieces, q \in created.pieces :
                p.id = q.id /\ p.position # q.position /\ ~p.has_ball /\ ~q.has_ball

-----------------------------------------------------------------------------
(* C25.  The frame of a successful move.                                    *)

\* C25: after a successful execute_move(id, piece, to) the moved piece is on
\* `to`; if it held the ball before the call it still holds it; every other
\* piece is on the tile it was on, and both scores are unchanged.
C25_MoveFrame ==
    \A t \in CallerTargets :
      \A to \in CallerDestinations(t) :
        LET out == execute_move(games, t[1], t[2], to)
        IN  (~out.panicked /\ out.ret.success) =>
              LET old == Unwrap(get_board(games, t[1]))
                  new == Unwrap(get_board(out.games, t[1]))
              IN  /\ \A p \in new.pieces : p.id = t[2] => p.position = to
                  /\ \A p \in old.pieces, q \in new.pieces :
                       (p.id = q.id /\ p.id = t[2] /\ p.has_ball) => q.has_ball
                  /\ \A p \in old.pieces, q \in new.pieces :
                       (p.id = q.id /\ p.id # t[2]) => q.position = p.position
                  /\ new.white_score = old.white_score
                  /\ new.black_score = old.black_score

\* The kickoff attacker, holding the ball, has just been moved as the first
\* action of a match.
C25_Witness ==
    /\ SucceededExecute(last)
    /\ last.game_id \in DOMAIN games
    /\ \E mode \in GameModeTypes :
         \E to \in CallerPositions :
           LET created == new_game(<< >>, last.game_id, mode).games
               out     == execute_move(created, last.game_id, "WA01", to)
           IN  /\ \E p \in Unwrap(get_board(created, last.game_id)).pieces :
                    p.id = "WA01" /\ p.has_ball
               /\ ~out.panicked /\ out.ret.success
               /\ games[last.game_id] = out.games[last.game_id]
               /\ last.result = out.ret

-----------------------------------------------------------------------------
(* C26.  Scores grow by goals only.                                         *)

\* C26: the score of a team changes only in a successful execute call whose
\* result reports goal_scored = that team; it then grows by exactly 1 and
\* the other score is unchanged; no score ever decreases; after a goal in a
\* match that continues, an Attacker of the conceding team holds the ball.
C26_ScoresGrowByGoals ==
    [][ \A id \in { i \in DOMAIN games \cap DOMAIN games' : games'[i] # games[i] } :
          LET old == Unwrap(get_board(games, id))
              new == Unwrap(get_board(games', id))
              Grew(team) == IF team = "White" THEN new.white_score - old.white_score
                            ELSE new.black_score - old.black_score
              Other(team) == IF team = "White" THEN "Black" ELSE "White"
          IN  \A team \in { "White", "Black" } :
                /\ Grew(team) \in { 0, 1 }
                /\ Grew(team) = 1 =>
                     /\ SucceededExecute(last')
                     /\ last'.game_id = id
                     /\ last'.result.goal_scored = team
                     /\ Grew(Other(team)) = 0
                     /\ ~is_game_over(games', id) =>
                          \E p \in new.pieces :
                            p.has_ball /\ p.role = "Attacker" /\ p.team = Other(team) ]_vars

\* White has scored in a match that continues: its score is 1 and a Black
\* attacker holds the ball.
C26_Witness ==
    /\ SucceededExecute(last)
    /\ last.result.goal_scored = "White"
    /\ ~last.result.game_over
    /\ last.game_id \in DOMAIN games
    /\ LET board == Unwrap(get_board(games, last.game_id))
       IN  /\ board.white_score = 1
           /\ board.black_score = 0
           /\ \E p \in board.pieces :
                p.has_ball /\ p.role = "Attacker" /\ p.team = "Black"
    /\ ~is_game_over(games, last.game_id)

-----------------------------------------------------------------------------
(* C27.  The result of a success agrees with the snapshot after it.         *)

\* C27: after every successful execute_* call the result carries the
\* actions_remaining of the snapshot taken right after, turn_ended is true
\* exactly when the team on turn differs from the one before the call, and
\* game_over and winner equal is_game_over and get_winner.
C27_ResultAgreesWithSnapshot ==
    [][ (SucceededExecute(last') /\ last'.game_id \in DOMAIN games) =>
          LET id  == last'.game_id
              old == Unwrap(get_board(games, id))
              new == Unwrap(get_board(games', id))
          IN  /\ last'.result.actions_remaining = new.actions_remaining
              /\ last'.result.turn_ended <=> (new.current_turn # old.current_turn)
              /\ last'.result.game_over <=> is_game_over(games', id)
              /\ last'.result.winner = get_winner(games', id) ]_vars

\* A successful action has used the last unit of the budget of White: the
\* result reports the end of the turn and the snapshot shows Black on turn
\* with a full budget.
C27_Witness ==
    /\ SucceededExecute(last)
    /\ last.result.turn_ended
    /\ last.result.actions_remaining = ActionsPerTurn
    /\ ~last.result.game_over
    /\ last.game_id \in DOMAIN games
    /\ Unwrap(get_board(games, last.game_id)).current_turn = "Black"
    /\ Unwrap(get_board(games, last.game_id)).actions_remaining = ActionsPerTurn
    /\ Unwrap(get_board(games, last.game_id)).turn_number = 1

-----------------------------------------------------------------------------
(* C28.  Failures are classified in a fixed order.                          *)

\* C28: every execute_* call on a game id that is not in the registry
\* results in success = false with the message "Game not found", whatever
\* the piece id and the target are; on a registered id with a piece id that
\* no piece has it results in success = false with "Piece not found" and
\* the match is not touched; every failure result has success = false, a
\* message that is not empty, no winner and no goal_scored.
C28_FailuresClassifiedInOrder ==
    /\ \A action \in EngineActions :
         \A path \in { << Pos(4, 3) >>, << OffBoard >> } :
           /\ \A id \in (0 .. MaxGames + 1) \ DOMAIN games :
                \A piece_id \in CallerPieceIds \cup { UnknownPieceId } :
                  ExecuteOf(games, id, piece_id, action, path)
                    = Returned(games, ActionResult_error("Game not found"))
           /\ \A id \in DOMAIN games :
                ExecuteOf(games, id, UnknownPieceId, action, path)
                  = Returned(games, ActionResult_error("Piece not found"))
    /\ FailedExecute(last) =>
         /\ ~last.result.success
         /\ last.result.message # ""
         /\ last.result.winner = Nil
         /\ last.result.goal_scored = Nil

\* A call naming a piece that does not exist has just failed on a match
\* that is registered and in play.
C28_Witness ==
    /\ FailedExecute(last)
    /\ last.result.message = "Piece not found"
    /\ last.game_id \in DOMAIN games
    /\ ~is_game_over(games, last.game_id)
    /\ Unwrap(get_board(games, last.game_id)).turn_number > InitialTurnNumber

-----------------------------------------------------------------------------
(* C29.  Queries change nothing.                                            *)

\* C29: every query (get_board, the seven get_legal_* queries, get_bot_move,
\* get_bot_action, is_game_over, get_winner, game_exists) leaves the set of
\* ids, the state of every match and its snapshot as they were, so a
\* repeated get_board returns the same pieces, turn, budget and scores.
C29_QueriesChangeNothing ==
    [][ last'.op = "query" =>
          /\ DOMAIN games' = DOMAIN games
          /\ games' = games
          /\ \A id \in CallerGameIds : Snapshot(games', id) = Snapshot(games, id) ]_vars

\* A query has just been answered on a match in its second turn.
C29_Witness ==
    /\ last.op = "query"
    /\ ~last.panicked
    /\ last.result.success
    /\ last.game_id \in DOMAIN games
    /\ turn_number(games[last.game_id]) > InitialTurnNumber
    /\ ~is_game_over(games, last.game_id)

-----------------------------------------------------------------------------
(* C30.  Matches are isolated from one another.                             *)

\* C30: new_game adds exactly one match, under an id that was never in the
\* registry, and leaves every existing match as it was; an execute_* call
\* on one id, successful or not, leaves the snapshot of every other id as
\* it was.
C30_MatchesAreIsolated ==
    [][ /\ (last'.op = "new_game" /\ ~last'.panicked) =>
             /\ last'.game_id \notin DOMAIN games
             /\ last'.game_id \notin DOMAIN modes
             /\ DOMAIN games' = DOMAIN games \cup { last'.game_id }
             /\ \A id \in DOMAIN games :
                  games'[id] = games[id] /\ Snapshot(games', id) = Snapshot(games, id)
        /\ (last'.op = "execute" /\ ~last'.panicked) =>
             /\ DOMAIN games' = DOMAIN games
             /\ \A id \in (0 .. MaxGames + 1) \ { last'.game_id } :
                  Snapshot(games', id) = Snapshot(games, id) ]_vars

\* Two matches are registered and both have been played; the last call was
\* a successful action on the second.
C30_Witness ==
    /\ SucceededExecute(last)
    /\ last.game_id = 2
    /\ DOMAIN games = { 1, 2 }
    /\ games[1].actions_remaining # games[2].actions_remaining
    /\ \A id \in { 1, 2 } :
         turn_number(games[id]) > InitialTurnNumber
           \/ actions_remaining(games[id]) < ActionsPerTurn

-----------------------------------------------------------------------------
(* C31.  Continued play ends a match with a turn ceiling.                   *)

\* C31: a QuickMatch or StandardMatch in which successful actions keep being
\* executed is eventually over (or deleted), and it is over before more
\* successful actions than twice its turn ceiling have been executed; a
\* GoldenGoal match in which no goal has been scored is never over.
C31_ContinuedPlayEndsTheMatch ==
    /\ \A id \in 1 .. MaxGames :
         (IF id \in DOMAIN games
          THEN modes[id] \in { "QuickMatch", "StandardMatch" } ELSE FALSE)
           ~> (IF id \in DOMAIN games THEN is_game_over(games, id) ELSE TRUE)
    /\ [](\A id \in DOMAIN games :
            LET board == Unwrap(get_board(games, id))
                done  == ActionsPerTurn * board.turn_number
                           + (ActionsPerTurn - board.actions_remaining)
            IN  IF modes[id] = "GoldenGoal"
                THEN (board.white_score = 0 /\ board.black_score = 0)
                       => ~is_game_over(games, id)
                ELSE /\ done <= ActionsPerTurn * Ceiling(modes[id])
                     /\ ~is_game_over(games, id)
                          => done < ActionsPerTurn * Ceiling(modes[id]))

\* A StandardMatch has been played to its end by successful actions, the
\* last of which ended the last turn.
C31_Witness ==
    /\ SucceededExecute(last)
    /\ last.result.game_over
    /\ last.result.turn_ended
    /\ last.game_id \in DOMAIN games
    /\ modes[last.game_id] = "StandardMatch"
    /\ turn_number(games[last.game_id]) = StandardMatchTurns
    /\ is_game_over(games, last.game_id)

-----------------------------------------------------------------------------
(* C32.  The lock of the registry never deadlocks.                          *)

\* C32: a call holds the one lock of the registry exactly while it is past
\* its single acquisition and has not ended (never in a wrapper, never while
\* it waits, never after it has ended), and under fair scheduling every
\* call that any of the concurrent callers has started eventually ends.
C32_EveryCallReturns ==
    /\ \A t \in Threads : (threads[t].pc # "idle") ~> (threads[t].pc = "idle")
    /\ [](/\ lock \in 0 .. MaxThreads
          /\ \A t \in Threads : (lock = t) <=> (threads[t].pc \in { "find", "act" }))

\* A wrapper call has returned, and a call waits for the lock that another
\* call holds.
C32_Witness ==
    /\ last.op = "query"
    /\ ~last.panicked
    /\ \E t \in Threads, u \in Threads :
         /\ threads[t].pc = "lock"
         /\ lock = u
         /\ threads[u].pc \in { "find", "act" }

====
